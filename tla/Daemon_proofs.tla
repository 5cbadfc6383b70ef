--------------------------- MODULE Daemon_proofs ---------------------------
(***************************************************************************)
(* Proofs about the connection state machine, for every set of profiles    *)
(* and SIMs, every match_profile, variant count, network, PPP cap, command *)
(* set and setting.                                                        *)
(*                                                                         *)
(* The inductive invariant Inv is the conjunction of the invariants the    *)
(* runs check and of two facts they rest on.  Each group of conjuncts has  *)
(* a lemma of its own that says every step preserves it.                   *)
(***************************************************************************)
EXTENDS Daemon, TLAPS

(* The built-in profile is the only one the last-ditch flag is ever set    *)
(* with: selecting another one clears it.                                  *)
FallbackIsBuiltin == fallbackActive => profile \in {Builtin, None}

(* What is being activated belongs to a profile, even after a radio that   *)
(* could not be turned on.                                                 *)
LinkHasProfile == state \in {"CONNECTING", "CONNECTED"} => profile # None

Inv ==
  /\ TypeOK /\ Attached /\ SimKnown /\ NothingLeftWaiting
  /\ ActiveIsSelected /\ SnapshotTruth /\ ArmDurable
  /\ FallbackIsBuiltin /\ LinkHasProfile

-----------------------------------------------------------------------------
(* The constants.                                                          *)

LEMMA VariantInRange ==
  ASSUME NEW p \in Profiles, NEW v \in Nat, v < VariantCount[p] PROVE v \in Variants
<1>1. VariantCount[p] \in Nat \ {0} BY DaemonConstants
<1>2. v \in 0 .. (VariantCount[p] - 1) BY <1>1
<1>3. QED BY <1>2 DEF Variants

LEMMA VariantsAreNat == Variants \subseteq Nat
BY DaemonConstants DEF Variants

LEMMA Basics ==
  /\ Builtin \in Profiles /\ None \notin Profiles /\ None \notin Sims
  /\ 0 \in Variants /\ MaxFailures = 5 /\ Down \in Links
<1>1. Builtin \in Profiles /\ None \notin Profiles /\ None \notin Sims
  BY DaemonConstants DEF Profiles
<1>2. 0 \in Variants
  <2>1. 0 < VariantCount[Builtin] BY <1>1, DaemonConstants
  <2>2. QED BY <1>1, <2>1, VariantInRange
<1>3. MaxFailures = 5 BY DEF MaxFailures, LADDER
<1>4. Down \in Links BY DEF Links
<1>5. QED BY <1>1, <1>2, <1>3, <1>4

(* Selection returns a loaded profile, or none.                            *)
LEMMA SelectForType ==
  ASSUME NEW f \in Names \union {None}, NEW l \in Loads, NEW s \in Sims
  PROVE  /\ SelectFor(f, l, s) \in Profiles \union {None}
         /\ SelectFor(f, l, s) # Builtin
<1>1. l \in SUBSET Names BY DaemonConstants
<1>2. SelectFor(f, l, s) \in Names \union {None} BY <1>1, DaemonConstants DEF SelectFor
<1>3. QED BY <1>2, DaemonConstants DEF Profiles

-----------------------------------------------------------------------------
(* The type invariant in parts that a single prover can handle.            *)

FlagType ==
  /\ driver \in BOOLEAN /\ refresh \in BOOLEAN /\ window \in BOOLEAN
  /\ armed \in BOOLEAN /\ savedArm \in BOOLEAN /\ plan \in BOOLEAN
  /\ elapsed \in BOOLEAN /\ radio \in BOOLEAN /\ calm \in BOOLEAN
  /\ gaveUp \in BOOLEAN /\ fallbackActive \in BOOLEAN
ChoiceType ==
  /\ profile \in Profiles \union {None} /\ snapProfile \in Profiles \union {None}
  /\ forced \in Names \union {None} /\ loaded \in Loads
  /\ sim \in Sims \union {None} /\ snapSim \in Sims \union {None}
CountType == pppAttempts \in 0 .. PppCap /\ failures \in 0 .. MaxFailures

LEMMA TypeParts ==
  TypeOK <=> /\ state \in State /\ FlagType /\ ChoiceType /\ CountType
             /\ variant \in Variants /\ link \in Links
BY DEF TypeOK, FlagType, ChoiceType, CountType

LEMMA TypePartsNext ==
  TypeOK' <=> /\ state' \in State /\ FlagType' /\ ChoiceType' /\ CountType'
              /\ variant' \in Variants /\ link' \in Links
BY DEF TypeOK, FlagType, ChoiceType, CountType

(* What the operator does to the selection and the start of a test.        *)
LEMMA SelectionFlags ==
  ASSUME state \in State, FlagType, ForceProfile \/ ReleaseForce \/ ReloadProfiles
  PROVE  state' \in State /\ FlagType'
<1>1. OperatorFrame /\ (Reevaluate \/ UNCHANGED <<state, elapsed, link>>)
  BY DEF ForceProfile, ReleaseForce, ReloadProfiles
<1>2. /\ UNCHANGED <<state, elapsed>> \/ (state' = "SIM_READY" /\ elapsed' = FALSE)
      /\ UNCHANGED <<driver, refresh, window, armed, savedArm, plan, radio, calm, gaveUp,
                     fallbackActive>>
  BY <1>1 DEF OperatorFrame, Reevaluate, Go, choiceVars, armVars, policyVars, worldVars
<1>3. state' \in State BY <1>2 DEF State
<1>4. FlagType' BY <1>2, Zenon DEF FlagType
<1>5. QED BY <1>3, <1>4

LEMMA StartTestFlags ==
  ASSUME state \in State, FlagType, StartFallbackTest PROVE state' \in State /\ FlagType'
<1>1. /\ \/ state' = "FALLBACK_TEST" /\ radio' = FALSE /\ elapsed' = FALSE /\ window' = TRUE
         \/ UNCHANGED <<state, elapsed, window>> /\ (radio' = radio \/ radio' = FALSE)
      /\ UNCHANGED <<driver, refresh, armed, savedArm, plan, calm, gaveUp, fallbackActive>>
  BY DEF StartFallbackTest, StartTest, Go, choiceVars, armVars, policyVars, worldVars
<1>2. state' \in State BY <1>1 DEF State
<1>3. {radio', elapsed', window'} \subseteq BOOLEAN BY <1>1, Zenon DEF FlagType
<1>4. FlagType' BY <1>1, <1>3, Zenon DEF FlagType
<1>5. QED BY <1>2, <1>4

(* Every step leaves the state and the flags typed.                        *)
LEMMA FlagStep == Inv /\ [Next]_vars => state' \in State /\ FlagType'
<1> SUFFICES ASSUME Inv, [Next]_vars PROVE state' \in State /\ FlagType' OBVIOUS
<1>0. state \in State /\ FlagType BY TypeParts DEF Inv
<1> USE DEF vars, worldVars, choiceVars, armVars, policyVars, operatorVars,
           daemonVars, State, FlagType, Go, DropModem, ForgetModem, ConsumeArm,
           StartTest, TestFrom, Disconnect, DisconnectFrom, Fail, ConnectingFrame,
           AdvanceVariantOrFail, HasNextVariant, Activating, EscapePpp,
           CountPppReset, FullResetModem, ModemReboots, LetGo, ConnectedFrame,
           LastDitch, AdoptBuiltin, Due, Consume, StayAttached, RecoverFrame,
           ActionFails, ResetIsLost, EndTest, AfterTest, Accepts, Reattachable,
           Blocked, Reevaluate, ReselectFrom, OperatorFrame, Promising
<1>1. CASE DetectModem BY <1>0, <1>1 DEF DetectModem
<1>2. CASE ModemMute BY <1>0, <1>2 DEF ModemMute
<1>3. CASE SimAbsent BY <1>0, <1>3 DEF SimAbsent
<1>4. CASE SimFound BY <1>0, <1>4 DEF SimFound
<1>5. CASE ArmedAttach BY <1>0, <1>5 DEF ArmedAttach
<1>6. CASE NoProfile BY <1>0, <1>6 DEF NoProfile
<1>7. CASE ProfileSelected BY <1>0, <1>7 DEF ProfileSelected
<1>8. CASE Configure BY <1>0, <1>8 DEF Configure
<1>9. CASE Kick BY <1>0, <1>9 DEF Kick
<1>10. CASE ConnectTimeout BY <1>0, <1>10 DEF ConnectTimeout
<1>11. CASE LinkUp BY <1>0, <1>11 DEF LinkUp
<1>12. CASE PppReset BY <1>0, <1>12 DEF PppReset
<1>13. CASE SimRemoved BY <1>0, <1>13 DEF SimRemoved
<1>14. CASE SimSwapped BY <1>0, <1>14 DEF SimSwapped
<1>15. CASE ConnectionLost BY <1>0, <1>15 DEF ConnectionLost
<1>16. CASE StretchResetsLadder BY <1>0, <1>16 DEF StretchResetsLadder
<1>17. CASE SwitchToBuiltin BY <1>0, <1>17 DEF SwitchToBuiltin
<1>18. CASE RecoverReconnect BY <1>0, <1>18 DEF RecoverReconnect
<1>19. CASE RecoverDisableEnable BY <1>0, <1>19 DEF RecoverDisableEnable
<1>20. CASE RecoverAtReset BY <1>0, <1>20 DEF RecoverAtReset
<1>21. CASE RecoverPowerCycle BY <1>0, <1>21 DEF RecoverPowerCycle
<1>22. CASE WindowElapsed BY <1>0, <1>22 DEF WindowElapsed
<1>23. CASE Reconnect BY <1>0, <1>23 DEF Reconnect
<1>24. CASE ResetModem BY <1>0, <1>24 DEF ResetModem
<1>25. CASE SetAtPort BY <1>0, <1>25 DEF SetAtPort
<1>26. CASE SetRat BY <1>0, <1>26 DEF SetRat
<1>27. CASE ForceProfile BY <1>0, <1>27, SelectionFlags
<1>28. CASE ReleaseForce BY <1>0, <1>28, SelectionFlags
<1>29. CASE ReloadProfiles BY <1>0, <1>29, SelectionFlags
<1>30. CASE StartFallbackTest BY <1>0, <1>30, StartTestFlags
<1>31. CASE AbortFallbackTest BY <1>0, <1>31 DEF AbortFallbackTest
<1>32. CASE ArmFallbackTest BY <1>0, <1>32 DEF ArmFallbackTest
<1>33. CASE SimChanges BY <1>0, <1>33 DEF SimChanges
<1>34. CASE SimRefreshUrc BY <1>0, <1>34 DEF SimRefreshUrc
<1>35. CASE Registered BY <1>0, <1>35 DEF Registered
<1>36. CASE LinkDrops BY <1>0, <1>36 DEF LinkDrops
<1>37. CASE Elapse BY <1>0, <1>37 DEF Elapse
<1>38. CASE Restart BY <1>0, <1>38 DEF Restart
<1>39. CASE Settle BY <1>0, <1>39 DEF Settle
<1>40. CASE UNCHANGED vars BY <1>0, <1>40
<1>41. QED
  BY <1>1, <1>2, <1>3, <1>4, <1>5, <1>6, <1>7, <1>8, <1>9, <1>10,
     <1>11, <1>12, <1>13, <1>14, <1>15, <1>16, <1>17, <1>18, <1>19, <1>20,
     <1>21, <1>22, <1>23, <1>24, <1>25, <1>26, <1>27, <1>28, <1>29, <1>30,
     <1>31, <1>32, <1>33, <1>34, <1>35, <1>36, <1>37, <1>38, <1>39, <1>40
  DEF Next, Handler, Command, Environment

(* Every step leaves profiles and SIMs typed; selection needs a known SIM. *)
LEMMA ChoiceStep == Inv /\ [Next]_vars => ChoiceType'
<1> SUFFICES ASSUME Inv, [Next]_vars PROVE ChoiceType' OBVIOUS
<1>0. ChoiceType /\ SimKnown BY TypeParts DEF Inv
<1> USE DEF vars, worldVars, choiceVars, armVars, policyVars, operatorVars,
           daemonVars, ChoiceType, Go, DropModem, ForgetModem, ConsumeArm,
           StartTest, TestFrom, Disconnect, DisconnectFrom, Fail, ConnectingFrame,
           AdvanceVariantOrFail, HasNextVariant, Activating, EscapePpp,
           CountPppReset, FullResetModem, ModemReboots, LetGo, ConnectedFrame,
           LastDitch, AdoptBuiltin, Due, Consume, StayAttached, RecoverFrame,
           ActionFails, ResetIsLost, EndTest, AfterTest, Accepts, Reattachable,
           Blocked, Reevaluate, ReselectFrom, OperatorFrame, Promising
<1>1. CASE DetectModem BY <1>0, <1>1, Basics DEF DetectModem
<1>2. CASE ModemMute BY <1>0, <1>2, Basics DEF ModemMute
<1>3. CASE SimAbsent BY <1>0, <1>3, Basics DEF SimAbsent
<1>4. CASE SimFound BY <1>0, <1>4, Basics DEF SimFound
<1>5. CASE ArmedAttach BY <1>0, <1>5, Basics DEF ArmedAttach
<1>6. CASE NoProfile BY <1>0, <1>6, Basics DEF NoProfile
<1>7. CASE ProfileSelected
  <2>1. SelectProfile(snapSim) \in Profiles \union {None}
    BY <1>0, <1>7, SelectForType DEF ProfileSelected, SelectProfile, SimKnown
  <2>2. QED BY <1>0, <1>7, <2>1, Basics DEF ProfileSelected
<1>8. CASE Configure BY <1>0, <1>8, Basics DEF Configure
<1>9. CASE Kick BY <1>0, <1>9, Basics DEF Kick
<1>10. CASE ConnectTimeout BY <1>0, <1>10, Basics DEF ConnectTimeout
<1>11. CASE LinkUp BY <1>0, <1>11, Basics DEF LinkUp
<1>12. CASE PppReset BY <1>0, <1>12, Basics DEF PppReset
<1>13. CASE SimRemoved BY <1>0, <1>13, Basics DEF SimRemoved
<1>14. CASE SimSwapped BY <1>0, <1>14, Basics DEF SimSwapped
<1>15. CASE ConnectionLost BY <1>0, <1>15, Basics DEF ConnectionLost
<1>16. CASE StretchResetsLadder BY <1>0, <1>16, Basics DEF StretchResetsLadder
<1>17. CASE SwitchToBuiltin BY <1>0, <1>17, Basics DEF SwitchToBuiltin
<1>18. CASE RecoverReconnect BY <1>0, <1>18, Basics DEF RecoverReconnect
<1>19. CASE RecoverDisableEnable BY <1>0, <1>19, Basics DEF RecoverDisableEnable
<1>20. CASE RecoverAtReset BY <1>0, <1>20, Basics DEF RecoverAtReset
<1>21. CASE RecoverPowerCycle BY <1>0, <1>21, Basics DEF RecoverPowerCycle
<1>22. CASE WindowElapsed BY <1>0, <1>22, Basics DEF WindowElapsed
<1>23. CASE Reconnect BY <1>0, <1>23, Basics DEF Reconnect
<1>24. CASE ResetModem BY <1>0, <1>24, Basics DEF ResetModem
<1>25. CASE SetAtPort BY <1>0, <1>25, Basics DEF SetAtPort
<1>26. CASE SetRat BY <1>0, <1>26, Basics DEF SetRat
<1>27. CASE ForceProfile
  <2>1. forced' \in Names
    BY <1>0, <1>27, DaemonConstants DEF ForceProfile
  <2>2. QED BY <1>0, <1>27, <2>1 DEF ForceProfile
<1>28. CASE ReleaseForce BY <1>0, <1>28, Basics DEF ReleaseForce
<1>29. CASE ReloadProfiles BY <1>0, <1>29, Basics DEF ReloadProfiles
<1>30. CASE StartFallbackTest BY <1>0, <1>30, Basics DEF StartFallbackTest
<1>31. CASE AbortFallbackTest BY <1>0, <1>31, Basics DEF AbortFallbackTest
<1>32. CASE ArmFallbackTest BY <1>0, <1>32, Basics DEF ArmFallbackTest
<1>33. CASE SimChanges BY <1>0, <1>33, Basics DEF SimChanges
<1>34. CASE SimRefreshUrc BY <1>0, <1>34, Basics DEF SimRefreshUrc
<1>35. CASE Registered BY <1>0, <1>35, Basics DEF Registered
<1>36. CASE LinkDrops BY <1>0, <1>36, Basics DEF LinkDrops
<1>37. CASE Elapse BY <1>0, <1>37, Basics DEF Elapse
<1>38. CASE Restart BY <1>0, <1>38, Basics DEF Restart
<1>39. CASE Settle BY <1>0, <1>39, Basics DEF Settle
<1>40. CASE UNCHANGED vars BY <1>0, <1>40, Basics
<1>41. QED
  BY <1>1, <1>2, <1>3, <1>4, <1>5, <1>6, <1>7, <1>8, <1>9, <1>10,
     <1>11, <1>12, <1>13, <1>14, <1>15, <1>16, <1>17, <1>18, <1>19, <1>20,
     <1>21, <1>22, <1>23, <1>24, <1>25, <1>26, <1>27, <1>28, <1>29, <1>30,
     <1>31, <1>32, <1>33, <1>34, <1>35, <1>36, <1>37, <1>38, <1>39, <1>40
  DEF Next, Handler, Command, Environment

(* Every step keeps the counters within their bounds.                      *)
LEMMA CountStep == Inv /\ [Next]_vars => CountType'
<1> SUFFICES ASSUME Inv, [Next]_vars PROVE CountType' OBVIOUS
<1>0. CountType BY TypeParts DEF Inv
<1> USE DEF vars, worldVars, choiceVars, armVars, policyVars, operatorVars,
           daemonVars, CountType, Go, DropModem, ForgetModem, ConsumeArm,
           StartTest, TestFrom, Disconnect, DisconnectFrom, Fail, ConnectingFrame,
           AdvanceVariantOrFail, HasNextVariant, Activating, EscapePpp,
           CountPppReset, FullResetModem, ModemReboots, LetGo, ConnectedFrame,
           LastDitch, AdoptBuiltin, Due, Consume, StayAttached, RecoverFrame,
           ActionFails, ResetIsLost, EndTest, AfterTest, Accepts, Reattachable,
           Blocked, Reevaluate, ReselectFrom, OperatorFrame, Promising
<1>1. CASE DetectModem BY <1>0, <1>1, Basics, DaemonConstants DEF DetectModem
<1>2. CASE ModemMute BY <1>0, <1>2, Basics, DaemonConstants DEF ModemMute
<1>3. CASE SimAbsent BY <1>0, <1>3, Basics, DaemonConstants DEF SimAbsent
<1>4. CASE SimFound BY <1>0, <1>4, Basics, DaemonConstants DEF SimFound
<1>5. CASE ArmedAttach BY <1>0, <1>5, Basics, DaemonConstants DEF ArmedAttach
<1>6. CASE NoProfile BY <1>0, <1>6, Basics, DaemonConstants DEF NoProfile
<1>7. CASE ProfileSelected BY <1>0, <1>7, Basics, DaemonConstants DEF ProfileSelected
<1>8. CASE Configure BY <1>0, <1>8, Basics, DaemonConstants DEF Configure
<1>9. CASE Kick BY <1>0, <1>9, Basics, DaemonConstants DEF Kick
<1>10. CASE ConnectTimeout BY <1>0, <1>10, Basics, DaemonConstants DEF ConnectTimeout
<1>11. CASE LinkUp BY <1>0, <1>11, Basics, DaemonConstants DEF LinkUp
<1>12. CASE PppReset BY <1>0, <1>12, Basics, DaemonConstants DEF PppReset
<1>13. CASE SimRemoved BY <1>0, <1>13, Basics, DaemonConstants DEF SimRemoved
<1>14. CASE SimSwapped BY <1>0, <1>14, Basics, DaemonConstants DEF SimSwapped
<1>15. CASE ConnectionLost BY <1>0, <1>15, Basics, DaemonConstants DEF ConnectionLost
<1>16. CASE StretchResetsLadder BY <1>0, <1>16, Basics, DaemonConstants DEF StretchResetsLadder
<1>17. CASE SwitchToBuiltin BY <1>0, <1>17, Basics, DaemonConstants DEF SwitchToBuiltin
<1>18. CASE RecoverReconnect BY <1>0, <1>18, Basics, DaemonConstants DEF RecoverReconnect
<1>19. CASE RecoverDisableEnable
  <2>1. pppAttempts' = pppAttempts BY <1>19 DEF RecoverDisableEnable
  <2>2. \/ failures' = failures
        \/ failures' = IF failures < MaxFailures THEN failures + 1 ELSE failures
    BY <1>19, Zenon DEF RecoverDisableEnable
  <2>3. QED BY <1>0, <2>1, <2>2, Basics DEF CountType
<1>20. CASE RecoverAtReset BY <1>0, <1>20, Basics, DaemonConstants DEF RecoverAtReset
<1>21. CASE RecoverPowerCycle BY <1>0, <1>21, Basics, DaemonConstants DEF RecoverPowerCycle
<1>22. CASE WindowElapsed
  <2>1. pppAttempts' = pppAttempts BY <1>22 DEF WindowElapsed
  <2>2. \/ failures' = failures
        \/ failures' = IF failures < MaxFailures THEN failures + 1 ELSE failures
    BY <1>22, Zenon DEF WindowElapsed
  <2>3. QED BY <1>0, <2>1, <2>2, Basics DEF CountType
<1>23. CASE Reconnect BY <1>0, <1>23, Basics, DaemonConstants DEF Reconnect
<1>24. CASE ResetModem BY <1>0, <1>24, Basics, DaemonConstants DEF ResetModem
<1>25. CASE SetAtPort BY <1>0, <1>25, Basics, DaemonConstants DEF SetAtPort
<1>26. CASE SetRat BY <1>0, <1>26, Basics, DaemonConstants DEF SetRat
<1>27. CASE ForceProfile BY <1>0, <1>27, Basics, DaemonConstants DEF ForceProfile
<1>28. CASE ReleaseForce BY <1>0, <1>28, Basics, DaemonConstants DEF ReleaseForce
<1>29. CASE ReloadProfiles BY <1>0, <1>29, Basics, DaemonConstants DEF ReloadProfiles
<1>30. CASE StartFallbackTest BY <1>0, <1>30, Basics, DaemonConstants DEF StartFallbackTest
<1>31. CASE AbortFallbackTest
  <2>1. pppAttempts' = pppAttempts BY <1>31 DEF AbortFallbackTest
  <2>2. \/ failures' = failures
        \/ failures' = IF failures < MaxFailures THEN failures + 1 ELSE failures
    BY <1>31, Zenon DEF AbortFallbackTest
  <2>3. QED BY <1>0, <2>1, <2>2, Basics DEF CountType
<1>32. CASE ArmFallbackTest BY <1>0, <1>32, Basics, DaemonConstants DEF ArmFallbackTest
<1>33. CASE SimChanges BY <1>0, <1>33, Basics, DaemonConstants DEF SimChanges
<1>34. CASE SimRefreshUrc BY <1>0, <1>34, Basics, DaemonConstants DEF SimRefreshUrc
<1>35. CASE Registered BY <1>0, <1>35, Basics, DaemonConstants DEF Registered
<1>36. CASE LinkDrops BY <1>0, <1>36, Basics, DaemonConstants DEF LinkDrops
<1>37. CASE Elapse BY <1>0, <1>37, Basics, DaemonConstants DEF Elapse
<1>38. CASE Restart BY <1>0, <1>38, Basics, DaemonConstants DEF Restart
<1>39. CASE Settle BY <1>0, <1>39, Basics, DaemonConstants DEF Settle
<1>40. CASE UNCHANGED vars BY <1>0, <1>40, Basics, DaemonConstants
<1>41. QED
  BY <1>1, <1>2, <1>3, <1>4, <1>5, <1>6, <1>7, <1>8, <1>9, <1>10,
     <1>11, <1>12, <1>13, <1>14, <1>15, <1>16, <1>17, <1>18, <1>19, <1>20,
     <1>21, <1>22, <1>23, <1>24, <1>25, <1>26, <1>27, <1>28, <1>29, <1>30,
     <1>31, <1>32, <1>33, <1>34, <1>35, <1>36, <1>37, <1>38, <1>39, <1>40
  DEF Next, Handler, Command, Environment

(* Every step leaves the variant within the sets some profile has.         *)
LEMMA VariantStep == Inv /\ [Next]_vars => variant' \in Variants
<1> SUFFICES ASSUME Inv, [Next]_vars PROVE variant' \in Variants OBVIOUS
<1>0. variant \in Variants /\ ChoiceType /\ LinkHasProfile BY TypeParts DEF Inv
<1> USE DEF vars, worldVars, choiceVars, armVars, policyVars, operatorVars,
           daemonVars, Go, DropModem, ForgetModem, ConsumeArm, StartTest, TestFrom,
           Disconnect, DisconnectFrom, Fail, ConnectingFrame, AdvanceVariantOrFail,
           Activating, EscapePpp, CountPppReset, FullResetModem, ModemReboots,
           LetGo, ConnectedFrame, LastDitch, AdoptBuiltin, Due, Consume,
           StayAttached, RecoverFrame, ActionFails, ResetIsLost, EndTest,
           AfterTest, Accepts, Reattachable, Blocked, Reevaluate, ReselectFrom,
           OperatorFrame, Promising
<1>1. CASE DetectModem BY <1>0, <1>1, Basics DEF DetectModem
<1>2. CASE ModemMute BY <1>0, <1>2, Basics DEF ModemMute
<1>3. CASE SimAbsent BY <1>0, <1>3, Basics DEF SimAbsent
<1>4. CASE SimFound BY <1>0, <1>4, Basics DEF SimFound
<1>5. CASE ArmedAttach BY <1>0, <1>5, Basics DEF ArmedAttach
<1>6. CASE NoProfile BY <1>0, <1>6, Basics DEF NoProfile
<1>7. CASE ProfileSelected BY <1>0, <1>7, Basics DEF ProfileSelected
<1>8. CASE Configure BY <1>0, <1>8, Basics DEF Configure
<1>9. CASE Kick
  <2>1. HasNextVariant => variant + 1 \in Variants
    BY <1>0, <1>9, Basics, VariantsAreNat, VariantInRange, SMT
    DEF Kick, HasNextVariant, ChoiceType, LinkHasProfile
  <2>2. QED BY <1>0, <1>9, <2>1, Basics DEF Kick
<1>10. CASE ConnectTimeout
  <2>1. HasNextVariant => variant + 1 \in Variants
    BY <1>0, <1>10, Basics, VariantsAreNat, VariantInRange
    DEF ConnectTimeout, HasNextVariant, ChoiceType, LinkHasProfile
  <2>2. QED BY <1>0, <1>10, <2>1, Basics DEF ConnectTimeout
<1>11. CASE LinkUp BY <1>0, <1>11, Basics DEF LinkUp
<1>12. CASE PppReset BY <1>0, <1>12, Basics DEF PppReset
<1>13. CASE SimRemoved BY <1>0, <1>13, Basics DEF SimRemoved
<1>14. CASE SimSwapped BY <1>0, <1>14, Basics DEF SimSwapped
<1>15. CASE ConnectionLost BY <1>0, <1>15, Basics DEF ConnectionLost
<1>16. CASE StretchResetsLadder BY <1>0, <1>16, Basics DEF StretchResetsLadder
<1>17. CASE SwitchToBuiltin BY <1>0, <1>17, Basics DEF SwitchToBuiltin
<1>18. CASE RecoverReconnect BY <1>0, <1>18, Basics DEF RecoverReconnect
<1>19. CASE RecoverDisableEnable BY <1>0, <1>19, Basics DEF RecoverDisableEnable
<1>20. CASE RecoverAtReset BY <1>0, <1>20, Basics DEF RecoverAtReset
<1>21. CASE RecoverPowerCycle BY <1>0, <1>21, Basics DEF RecoverPowerCycle
<1>22. CASE WindowElapsed BY <1>0, <1>22, Basics DEF WindowElapsed
<1>23. CASE Reconnect BY <1>0, <1>23, Basics DEF Reconnect
<1>24. CASE ResetModem BY <1>0, <1>24, Basics DEF ResetModem
<1>25. CASE SetAtPort BY <1>0, <1>25, Basics DEF SetAtPort
<1>26. CASE SetRat BY <1>0, <1>26, Basics DEF SetRat
<1>27. CASE ForceProfile BY <1>0, <1>27, Basics DEF ForceProfile
<1>28. CASE ReleaseForce BY <1>0, <1>28, Basics DEF ReleaseForce
<1>29. CASE ReloadProfiles BY <1>0, <1>29, Basics DEF ReloadProfiles
<1>30. CASE StartFallbackTest BY <1>0, <1>30, Basics DEF StartFallbackTest
<1>31. CASE AbortFallbackTest BY <1>0, <1>31, Basics DEF AbortFallbackTest
<1>32. CASE ArmFallbackTest BY <1>0, <1>32, Basics DEF ArmFallbackTest
<1>33. CASE SimChanges BY <1>0, <1>33, Basics DEF SimChanges
<1>34. CASE SimRefreshUrc BY <1>0, <1>34, Basics DEF SimRefreshUrc
<1>35. CASE Registered BY <1>0, <1>35, Basics DEF Registered
<1>36. CASE LinkDrops BY <1>0, <1>36, Basics DEF LinkDrops
<1>37. CASE Elapse BY <1>0, <1>37, Basics DEF Elapse
<1>38. CASE Restart BY <1>0, <1>38, Basics DEF Restart
<1>39. CASE Settle BY <1>0, <1>39, Basics DEF Settle
<1>40. CASE UNCHANGED vars BY <1>0, <1>40, Basics
<1>41. QED
  BY <1>1, <1>2, <1>3, <1>4, <1>5, <1>6, <1>7, <1>8, <1>9, <1>10,
     <1>11, <1>12, <1>13, <1>14, <1>15, <1>16, <1>17, <1>18, <1>19, <1>20,
     <1>21, <1>22, <1>23, <1>24, <1>25, <1>26, <1>27, <1>28, <1>29, <1>30,
     <1>31, <1>32, <1>33, <1>34, <1>35, <1>36, <1>37, <1>38, <1>39, <1>40
  DEF Next, Handler, Command, Environment

(* The connection is always one of a profile's bearers, or down.           *)
LEMMA LinkStep == Inv /\ [Next]_vars => link' \in Links
<1> SUFFICES ASSUME Inv, [Next]_vars PROVE link' \in Links OBVIOUS
<1>0. link \in Links /\ ChoiceType /\ variant \in Variants /\ LinkHasProfile BY TypeParts DEF Inv
<1> USE DEF vars, worldVars, choiceVars, armVars, policyVars, operatorVars,
           daemonVars, Go, DropModem, ForgetModem, ConsumeArm, StartTest, TestFrom,
           Disconnect, DisconnectFrom, Fail, ConnectingFrame, AdvanceVariantOrFail,
           HasNextVariant, EscapePpp, CountPppReset, FullResetModem, ModemReboots,
           LetGo, ConnectedFrame, LastDitch, AdoptBuiltin, Due, Consume,
           StayAttached, RecoverFrame, ActionFails, ResetIsLost, EndTest,
           AfterTest, Accepts, Reattachable, Blocked, Reevaluate, ReselectFrom,
           OperatorFrame, Promising
<1>1. CASE DetectModem BY <1>0, <1>1, Basics DEF DetectModem
<1>2. CASE ModemMute BY <1>0, <1>2, Basics DEF ModemMute
<1>3. CASE SimAbsent BY <1>0, <1>3, Basics DEF SimAbsent
<1>4. CASE SimFound BY <1>0, <1>4, Basics DEF SimFound
<1>5. CASE ArmedAttach BY <1>0, <1>5, Basics DEF ArmedAttach
<1>6. CASE NoProfile BY <1>0, <1>6, Basics DEF NoProfile
<1>7. CASE ProfileSelected BY <1>0, <1>7, Basics DEF ProfileSelected
<1>8. CASE Configure BY <1>0, <1>8, Basics DEF Configure
<1>9. CASE Kick
  <2>1. profile \in Profiles BY <1>0, <1>9 DEF Kick, ChoiceType, LinkHasProfile
  <2>2. Activating(<<profile, variant>>) \in Links
    BY <1>0, <2>1 DEF Activating, Links, Bearers
  <2>3. QED BY <1>0, <1>9, <2>2, Basics DEF Kick
<1>10. CASE ConnectTimeout BY <1>0, <1>10, Basics DEF ConnectTimeout
<1>11. CASE LinkUp BY <1>0, <1>11, Basics DEF LinkUp
<1>12. CASE PppReset BY <1>0, <1>12, Basics DEF PppReset
<1>13. CASE SimRemoved BY <1>0, <1>13, Basics DEF SimRemoved
<1>14. CASE SimSwapped BY <1>0, <1>14, Basics DEF SimSwapped
<1>15. CASE ConnectionLost BY <1>0, <1>15, Basics DEF ConnectionLost
<1>16. CASE StretchResetsLadder BY <1>0, <1>16, Basics DEF StretchResetsLadder
<1>17. CASE SwitchToBuiltin BY <1>0, <1>17, Basics DEF SwitchToBuiltin
<1>18. CASE RecoverReconnect BY <1>0, <1>18, Basics DEF RecoverReconnect
<1>19. CASE RecoverDisableEnable BY <1>0, <1>19, Basics DEF RecoverDisableEnable
<1>20. CASE RecoverAtReset BY <1>0, <1>20, Basics DEF RecoverAtReset
<1>21. CASE RecoverPowerCycle BY <1>0, <1>21, Basics DEF RecoverPowerCycle
<1>22. CASE WindowElapsed BY <1>0, <1>22, Basics DEF WindowElapsed
<1>23. CASE Reconnect BY <1>0, <1>23, Basics DEF Reconnect
<1>24. CASE ResetModem BY <1>0, <1>24, Basics DEF ResetModem
<1>25. CASE SetAtPort BY <1>0, <1>25, Basics DEF SetAtPort
<1>26. CASE SetRat BY <1>0, <1>26, Basics DEF SetRat
<1>27. CASE ForceProfile BY <1>0, <1>27, Basics DEF ForceProfile
<1>28. CASE ReleaseForce BY <1>0, <1>28, Basics DEF ReleaseForce
<1>29. CASE ReloadProfiles BY <1>0, <1>29, Basics DEF ReloadProfiles
<1>30. CASE StartFallbackTest BY <1>0, <1>30, Basics DEF StartFallbackTest
<1>31. CASE AbortFallbackTest BY <1>0, <1>31, Basics DEF AbortFallbackTest
<1>32. CASE ArmFallbackTest BY <1>0, <1>32, Basics DEF ArmFallbackTest
<1>33. CASE SimChanges BY <1>0, <1>33, Basics DEF SimChanges
<1>34. CASE SimRefreshUrc BY <1>0, <1>34, Basics DEF SimRefreshUrc
<1>35. CASE Registered
  <2>1. link.st = "activating" BY <1>35 DEF Registered
  <2>2. link \in [st : {"activating", "native", "ppp", "noip"}, bearer : Bearers]
    BY <1>0, <2>1 DEF Links, Down
  <2>3. \A i \in Ifaces : [link EXCEPT !.st = i] \in Links
    BY <2>2, DaemonConstants DEF Links
  <2>4. QED BY <1>35, <2>3 DEF Registered
<1>36. CASE LinkDrops BY <1>0, <1>36, Basics DEF LinkDrops
<1>37. CASE Elapse BY <1>0, <1>37, Basics DEF Elapse
<1>38. CASE Restart BY <1>0, <1>38, Basics DEF Restart
<1>39. CASE Settle BY <1>0, <1>39, Basics DEF Settle
<1>40. CASE UNCHANGED vars BY <1>0, <1>40, Basics
<1>41. QED
  BY <1>1, <1>2, <1>3, <1>4, <1>5, <1>6, <1>7, <1>8, <1>9, <1>10,
     <1>11, <1>12, <1>13, <1>14, <1>15, <1>16, <1>17, <1>18, <1>19, <1>20,
     <1>21, <1>22, <1>23, <1>24, <1>25, <1>26, <1>27, <1>28, <1>29, <1>30,
     <1>31, <1>32, <1>33, <1>34, <1>35, <1>36, <1>37, <1>38, <1>39, <1>40
  DEF Next, Handler, Command, Environment

(* The driver follows the state, timers exist where they are needed, and   *)
(* the arm follows its database copy.                                      *)
LEMMA ControlStep == Inv /\ [Next]_vars => Attached' /\ NothingLeftWaiting' /\ ArmDurable'
<1> SUFFICES ASSUME Inv, [Next]_vars PROVE Attached' /\ NothingLeftWaiting' /\ ArmDurable' OBVIOUS
<1>0. FlagType /\ Attached /\ NothingLeftWaiting /\ ArmDurable BY TypeParts DEF Inv
<1> USE DEF vars, worldVars, choiceVars, armVars, policyVars, operatorVars,
           daemonVars, FlagType, Attached, NothingLeftWaiting, ArmDurable, Go,
           DropModem, ForgetModem, ConsumeArm, StartTest, TestFrom, Disconnect,
           DisconnectFrom, Fail, ConnectingFrame, AdvanceVariantOrFail,
           HasNextVariant, Activating, EscapePpp, CountPppReset, FullResetModem,
           ModemReboots, LetGo, ConnectedFrame, LastDitch, AdoptBuiltin, Due,
           Consume, StayAttached, RecoverFrame, ActionFails, ResetIsLost, EndTest,
           AfterTest, Accepts, Reattachable, Blocked, Reevaluate, ReselectFrom,
           OperatorFrame, Promising
<1>1. CASE DetectModem BY <1>0, <1>1 DEF DetectModem
<1>2. CASE ModemMute BY <1>0, <1>2 DEF ModemMute
<1>3. CASE SimAbsent BY <1>0, <1>3 DEF SimAbsent
<1>4. CASE SimFound BY <1>0, <1>4 DEF SimFound
<1>5. CASE ArmedAttach
  <2>1. \/ window' = TRUE /\ state' = "FALLBACK_TEST"
        \/ window' = window /\ state' = state
    BY <1>5, Zenon DEF ArmedAttach
  <2>2. driver /\ driver' = driver /\ plan' = plan BY <1>5 DEF ArmedAttach
  <2>3. Attached' BY <1>0, <2>1, <2>2
  <2>4. NothingLeftWaiting' BY <1>0, <2>1, <2>2
  <2>5. ArmDurable' BY <1>0, <1>5, DaemonConstants DEF ArmedAttach
  <2>6. QED BY <2>3, <2>4, <2>5
<1>6. CASE NoProfile BY <1>0, <1>6 DEF NoProfile
<1>7. CASE ProfileSelected BY <1>0, <1>7 DEF ProfileSelected
<1>8. CASE Configure BY <1>0, <1>8 DEF Configure
<1>9. CASE Kick BY <1>0, <1>9 DEF Kick
<1>10. CASE ConnectTimeout BY <1>0, <1>10 DEF ConnectTimeout
<1>11. CASE LinkUp BY <1>0, <1>11 DEF LinkUp
<1>12. CASE PppReset BY <1>0, <1>12 DEF PppReset
<1>13. CASE SimRemoved BY <1>0, <1>13 DEF SimRemoved
<1>14. CASE SimSwapped BY <1>0, <1>14 DEF SimSwapped
<1>15. CASE ConnectionLost BY <1>0, <1>15 DEF ConnectionLost
<1>16. CASE StretchResetsLadder BY <1>0, <1>16 DEF StretchResetsLadder
<1>17. CASE SwitchToBuiltin BY <1>0, <1>17 DEF SwitchToBuiltin
<1>18. CASE RecoverReconnect BY <1>0, <1>18 DEF RecoverReconnect
<1>19. CASE RecoverDisableEnable BY <1>0, <1>19 DEF RecoverDisableEnable
<1>20. CASE RecoverAtReset BY <1>0, <1>20 DEF RecoverAtReset
<1>21. CASE RecoverPowerCycle
  <2>1. \/ driver' = FALSE /\ state' = "NO_MODEM"
        \/ driver' = driver /\ state' = "DEGRADED"
    BY <1>21, Zenon DEF RecoverPowerCycle
  <2>2. state = "DEGRADED" BY <1>21 DEF RecoverPowerCycle
  <2>3. Attached' BY <1>0, <2>1, <2>2
  <2>4. NothingLeftWaiting' /\ ArmDurable' BY <1>0, <1>21 DEF RecoverPowerCycle
  <2>5. QED BY <2>3, <2>4
<1>22. CASE WindowElapsed BY <1>0, <1>22 DEF WindowElapsed
<1>23. CASE Reconnect BY <1>0, <1>23 DEF Reconnect
<1>24. CASE ResetModem BY <1>0, <1>24 DEF ResetModem
<1>25. CASE SetAtPort BY <1>0, <1>25 DEF SetAtPort
<1>26. CASE SetRat BY <1>0, <1>26 DEF SetRat
<1>27. CASE ForceProfile BY <1>0, <1>27 DEF ForceProfile
<1>28. CASE ReleaseForce BY <1>0, <1>28 DEF ReleaseForce
<1>29. CASE ReloadProfiles BY <1>0, <1>29 DEF ReloadProfiles
<1>30. CASE StartFallbackTest
  <2>1. \/ window' = TRUE /\ state' = "FALLBACK_TEST"
        \/ window' = window /\ state' = state
    BY <1>30, Zenon DEF StartFallbackTest
  <2>2. driver /\ driver' = driver /\ plan' = plan BY <1>30 DEF StartFallbackTest
  <2>3. Attached' BY <1>0, <2>1, <2>2
  <2>4. NothingLeftWaiting' BY <1>0, <2>1, <2>2
  <2>5. ArmDurable' BY <1>0, <1>30, DaemonConstants DEF StartFallbackTest
  <2>6. QED BY <2>3, <2>4, <2>5
<1>31. CASE AbortFallbackTest BY <1>0, <1>31 DEF AbortFallbackTest
<1>32. CASE ArmFallbackTest
  <2>1. Attached' BY <1>0, <1>32 DEF ArmFallbackTest
  <2>2. NothingLeftWaiting' BY <1>0, <1>32 DEF ArmFallbackTest
  <2>3. ArmDurable' BY <1>0, <1>32, DaemonConstants DEF ArmFallbackTest
  <2>4. QED BY <2>1, <2>2, <2>3
<1>33. CASE SimChanges BY <1>0, <1>33 DEF SimChanges
<1>34. CASE SimRefreshUrc BY <1>0, <1>34 DEF SimRefreshUrc
<1>35. CASE Registered BY <1>0, <1>35 DEF Registered
<1>36. CASE LinkDrops BY <1>0, <1>36 DEF LinkDrops
<1>37. CASE Elapse BY <1>0, <1>37 DEF Elapse
<1>38. CASE Restart BY <1>0, <1>38 DEF Restart
<1>39. CASE Settle BY <1>0, <1>39 DEF Settle
<1>40. CASE UNCHANGED vars BY <1>0, <1>40
<1>41. QED
  BY <1>1, <1>2, <1>3, <1>4, <1>5, <1>6, <1>7, <1>8, <1>9, <1>10,
     <1>11, <1>12, <1>13, <1>14, <1>15, <1>16, <1>17, <1>18, <1>19, <1>20,
     <1>21, <1>22, <1>23, <1>24, <1>25, <1>26, <1>27, <1>28, <1>29, <1>30,
     <1>31, <1>32, <1>33, <1>34, <1>35, <1>36, <1>37, <1>38, <1>39, <1>40
  DEF Next, Handler, Command, Environment

(* The SIM stays known, the built-in profile marked, the link a profile's. *)
LEMMA ShapeStep == Inv /\ [Next]_vars => SimKnown' /\ FallbackIsBuiltin' /\ LinkHasProfile'
<1> SUFFICES ASSUME Inv, [Next]_vars PROVE SimKnown' /\ FallbackIsBuiltin' /\ LinkHasProfile' OBVIOUS
<1>0. SimKnown /\ FallbackIsBuiltin /\ LinkHasProfile BY TypeParts DEF Inv
<1> USE DEF vars, worldVars, choiceVars, armVars, policyVars, operatorVars,
           daemonVars, SimKnown, FallbackIsBuiltin, LinkHasProfile, Go, DropModem,
           ForgetModem, ConsumeArm, StartTest, TestFrom, Disconnect,
           DisconnectFrom, Fail, ConnectingFrame, AdvanceVariantOrFail,
           HasNextVariant, Activating, EscapePpp, CountPppReset, FullResetModem,
           ModemReboots, LetGo, ConnectedFrame, LastDitch, AdoptBuiltin, Due,
           Consume, StayAttached, RecoverFrame, ActionFails, ResetIsLost, EndTest,
           AfterTest, Accepts, Reattachable, Blocked, Reevaluate, ReselectFrom,
           OperatorFrame, Promising
<1>1. CASE DetectModem BY <1>0, <1>1, Basics DEF DetectModem
<1>2. CASE ModemMute BY <1>0, <1>2, Basics DEF ModemMute
<1>3. CASE SimAbsent BY <1>0, <1>3, Basics DEF SimAbsent
<1>4. CASE SimFound BY <1>0, <1>4, Basics DEF SimFound
<1>5. CASE ArmedAttach BY <1>0, <1>5, Basics DEF ArmedAttach
<1>6. CASE NoProfile BY <1>0, <1>6, Basics DEF NoProfile
<1>7. CASE ProfileSelected BY <1>0, <1>7, Basics DEF ProfileSelected
<1>8. CASE Configure BY <1>0, <1>8, Basics DEF Configure
<1>9. CASE Kick BY <1>0, <1>9, Basics DEF Kick
<1>10. CASE ConnectTimeout BY <1>0, <1>10, Basics DEF ConnectTimeout
<1>11. CASE LinkUp BY <1>0, <1>11, Basics DEF LinkUp
<1>12. CASE PppReset BY <1>0, <1>12, Basics DEF PppReset
<1>13. CASE SimRemoved BY <1>0, <1>13, Basics DEF SimRemoved
<1>14. CASE SimSwapped BY <1>0, <1>14, Basics DEF SimSwapped
<1>15. CASE ConnectionLost BY <1>0, <1>15, Basics DEF ConnectionLost
<1>16. CASE StretchResetsLadder BY <1>0, <1>16, Basics DEF StretchResetsLadder
<1>17. CASE SwitchToBuiltin BY <1>0, <1>17, Basics DEF SwitchToBuiltin
<1>18. CASE RecoverReconnect BY <1>0, <1>18, Basics DEF RecoverReconnect
<1>19. CASE RecoverDisableEnable BY <1>0, <1>19, Basics DEF RecoverDisableEnable
<1>20. CASE RecoverAtReset BY <1>0, <1>20, Basics DEF RecoverAtReset
<1>21. CASE RecoverPowerCycle BY <1>0, <1>21, Basics DEF RecoverPowerCycle
<1>22. CASE WindowElapsed BY <1>0, <1>22, Basics DEF WindowElapsed
<1>23. CASE Reconnect BY <1>0, <1>23, Basics DEF Reconnect
<1>24. CASE ResetModem BY <1>0, <1>24, Basics DEF ResetModem
<1>25. CASE SetAtPort BY <1>0, <1>25, Basics DEF SetAtPort
<1>26. CASE SetRat BY <1>0, <1>26, Basics DEF SetRat
<1>27. CASE ForceProfile BY <1>0, <1>27, Basics DEF ForceProfile
<1>28. CASE ReleaseForce BY <1>0, <1>28, Basics DEF ReleaseForce
<1>29. CASE ReloadProfiles BY <1>0, <1>29, Basics DEF ReloadProfiles
<1>30. CASE StartFallbackTest BY <1>0, <1>30, Basics DEF StartFallbackTest
<1>31. CASE AbortFallbackTest BY <1>0, <1>31, Basics DEF AbortFallbackTest
<1>32. CASE ArmFallbackTest BY <1>0, <1>32, Basics DEF ArmFallbackTest
<1>33. CASE SimChanges BY <1>0, <1>33, Basics DEF SimChanges
<1>34. CASE SimRefreshUrc BY <1>0, <1>34, Basics DEF SimRefreshUrc
<1>35. CASE Registered BY <1>0, <1>35, Basics DEF Registered
<1>36. CASE LinkDrops BY <1>0, <1>36, Basics DEF LinkDrops
<1>37. CASE Elapse BY <1>0, <1>37, Basics DEF Elapse
<1>38. CASE Restart BY <1>0, <1>38, Basics DEF Restart
<1>39. CASE Settle BY <1>0, <1>39, Basics DEF Settle
<1>40. CASE UNCHANGED vars BY <1>0, <1>40, Basics
<1>41. QED
  BY <1>1, <1>2, <1>3, <1>4, <1>5, <1>6, <1>7, <1>8, <1>9, <1>10,
     <1>11, <1>12, <1>13, <1>14, <1>15, <1>16, <1>17, <1>18, <1>19, <1>20,
     <1>21, <1>22, <1>23, <1>24, <1>25, <1>26, <1>27, <1>28, <1>29, <1>30,
     <1>31, <1>32, <1>33, <1>34, <1>35, <1>36, <1>37, <1>38, <1>39, <1>40
  DEF Next, Handler, Command, Environment

(* The profile in use stays the selected one, in memory and in the store.  *)
LEMMA SelectionStep == Inv /\ [Next]_vars => ActiveIsSelected' /\ SnapshotTruth'
<1> SUFFICES ASSUME Inv, [Next]_vars PROVE ActiveIsSelected' /\ SnapshotTruth' OBVIOUS
<1>0. FlagType /\ ChoiceType /\ SimKnown /\ FallbackIsBuiltin /\ ActiveIsSelected /\ SnapshotTruth BY TypeParts DEF Inv
<1> USE DEF vars, worldVars, choiceVars, armVars, policyVars, operatorVars,
           daemonVars, FlagType, SimKnown, FallbackIsBuiltin, ActiveIsSelected,
           SnapshotTruth, ProfileStates, SelectProfile, Go, DropModem, ForgetModem,
           ConsumeArm, StartTest, TestFrom, Disconnect, DisconnectFrom, Fail,
           ConnectingFrame, AdvanceVariantOrFail, HasNextVariant, Activating,
           EscapePpp, CountPppReset, FullResetModem, ModemReboots, LetGo,
           ConnectedFrame, LastDitch, AdoptBuiltin, Due, Consume, StayAttached,
           RecoverFrame, ActionFails, ResetIsLost, EndTest, AfterTest, Accepts,
           Reattachable, Blocked, Reevaluate, ReselectFrom, OperatorFrame,
           Promising
<1>1. CASE DetectModem BY <1>0, <1>1, Basics DEF DetectModem
<1>2. CASE ModemMute BY <1>0, <1>2, Basics DEF ModemMute
<1>3. CASE SimAbsent BY <1>0, <1>3, Basics DEF SimAbsent
<1>4. CASE SimFound BY <1>0, <1>4, Basics DEF SimFound
<1>5. CASE ArmedAttach BY <1>0, <1>5, Basics DEF ArmedAttach
<1>6. CASE NoProfile BY <1>0, <1>6, Basics DEF NoProfile
<1>7. CASE ProfileSelected BY <1>0, <1>7, Basics DEF ProfileSelected
<1>8. CASE Configure BY <1>0, <1>8, Basics DEF Configure
<1>9. CASE Kick BY <1>0, <1>9, Basics DEF Kick
<1>10. CASE ConnectTimeout BY <1>0, <1>10, Basics DEF ConnectTimeout
<1>11. CASE LinkUp BY <1>0, <1>11, Basics DEF LinkUp
<1>12. CASE PppReset BY <1>0, <1>12, Basics DEF PppReset
<1>13. CASE SimRemoved BY <1>0, <1>13, Basics DEF SimRemoved
<1>14. CASE SimSwapped BY <1>0, <1>14, Basics DEF SimSwapped
<1>15. CASE ConnectionLost BY <1>0, <1>15, Basics DEF ConnectionLost
<1>16. CASE StretchResetsLadder BY <1>0, <1>16, Basics DEF StretchResetsLadder
<1>17. CASE SwitchToBuiltin BY <1>0, <1>17, Basics DEF SwitchToBuiltin
<1>18. CASE RecoverReconnect BY <1>0, <1>18, Basics DEF RecoverReconnect
<1>19. CASE RecoverDisableEnable BY <1>0, <1>19, Basics DEF RecoverDisableEnable
<1>20. CASE RecoverAtReset BY <1>0, <1>20, Basics DEF RecoverAtReset
<1>21. CASE RecoverPowerCycle BY <1>0, <1>21, Basics DEF RecoverPowerCycle
<1>22. CASE WindowElapsed BY <1>0, <1>22, Basics DEF WindowElapsed
<1>23. CASE Reconnect BY <1>0, <1>23, Basics DEF Reconnect
<1>24. CASE ResetModem BY <1>0, <1>24, Basics DEF ResetModem
<1>25. CASE SetAtPort BY <1>0, <1>25, Basics DEF SetAtPort
<1>26. CASE SetRat BY <1>0, <1>26, Basics DEF SetRat
<1>27. CASE ForceProfile BY <1>0, <1>27, Basics DEF ForceProfile
<1>28. CASE ReleaseForce BY <1>0, <1>28, Basics DEF ReleaseForce
<1>29. CASE ReloadProfiles BY <1>0, <1>29, Basics DEF ReloadProfiles
<1>30. CASE StartFallbackTest BY <1>0, <1>30, Basics DEF StartFallbackTest
<1>31. CASE AbortFallbackTest BY <1>0, <1>31, Basics DEF AbortFallbackTest
<1>32. CASE ArmFallbackTest BY <1>0, <1>32, Basics DEF ArmFallbackTest
<1>33. CASE SimChanges BY <1>0, <1>33, Basics DEF SimChanges
<1>34. CASE SimRefreshUrc BY <1>0, <1>34, Basics DEF SimRefreshUrc
<1>35. CASE Registered BY <1>0, <1>35, Basics DEF Registered
<1>36. CASE LinkDrops BY <1>0, <1>36, Basics DEF LinkDrops
<1>37. CASE Elapse BY <1>0, <1>37, Basics DEF Elapse
<1>38. CASE Restart BY <1>0, <1>38, Basics DEF Restart
<1>39. CASE Settle BY <1>0, <1>39, Basics DEF Settle
<1>40. CASE UNCHANGED vars BY <1>0, <1>40, Basics
<1>41. QED
  BY <1>1, <1>2, <1>3, <1>4, <1>5, <1>6, <1>7, <1>8, <1>9, <1>10,
     <1>11, <1>12, <1>13, <1>14, <1>15, <1>16, <1>17, <1>18, <1>19, <1>20,
     <1>21, <1>22, <1>23, <1>24, <1>25, <1>26, <1>27, <1>28, <1>29, <1>30,
     <1>31, <1>32, <1>33, <1>34, <1>35, <1>36, <1>37, <1>38, <1>39, <1>40
  DEF Next, Handler, Command, Environment

-----------------------------------------------------------------------------
LEMMA InitInv == Init => Inv
<1> SUFFICES ASSUME Init PROVE Inv OBVIOUS
<1> USE DEF Init
<1>1. state \in State /\ FlagType BY DEF State, FlagType
<1>2. ChoiceType BY DEF ChoiceType
<1>3. CountType BY Basics, DaemonConstants DEF CountType
<1>4. variant \in Variants /\ link \in Links BY Basics
<1>5. Attached /\ SimKnown /\ NothingLeftWaiting /\ ArmDurable
  BY DEF Attached, SimKnown, NothingLeftWaiting, ArmDurable
<1>6. ActiveIsSelected /\ SnapshotTruth /\ FallbackIsBuiltin /\ LinkHasProfile
  BY DEF ActiveIsSelected, SnapshotTruth, FallbackIsBuiltin, LinkHasProfile, ProfileStates
<1>7. QED BY <1>1, <1>2, <1>3, <1>4, <1>5, <1>6, TypeParts DEF Inv

LEMMA NextInv == Inv /\ [Next]_vars => Inv'
BY FlagStep, ChoiceStep, CountStep, VariantStep, LinkStep, ControlStep, ShapeStep,
   SelectionStep, TypePartsNext DEF Inv

LEMMA SpecInv == Spec => []Inv
BY InitInv, NextInv, PTL DEF Spec

(* Every variable keeps its type: the PPP counter its cap, the variant a   *)
(* set that exists, the failure counter its bound.                         *)
THEOREM DaemonTypeOK == Spec => []TypeOK
<1>1. Inv => TypeOK BY DEF Inv
<1>2. QED BY <1>1, SpecInv, PTL

(* No handler runs without the driver its assertion demands.               *)
THEOREM DaemonAttached == Spec => []Attached
<1>1. Inv => Attached BY DEF Inv
<1>2. QED BY <1>1, SpecInv, PTL

(* Selection and reload never meet an unknown SIM.                         *)
THEOREM DaemonSimKnown == Spec => []SimKnown
<1>1. Inv => SimKnown BY DEF Inv
<1>2. QED BY <1>1, SpecInv, PTL

(* A degraded daemon always has a planned action, and a fallback test its  *)
(* window.                                                                 *)
THEOREM DaemonNothingLeftWaiting == Spec => []NothingLeftWaiting
<1>1. Inv => NothingLeftWaiting BY DEF Inv
<1>2. QED BY <1>1, SpecInv, PTL

(* The profile in use is the one selection would choose now.               *)
THEOREM DaemonActiveIsSelected == Spec => []ActiveIsSelected
<1>1. Inv => ActiveIsSelected BY DEF Inv
<1>2. QED BY <1>1, SpecInv, PTL

(* The store shows the profile in use.                                     *)
THEOREM DaemonSnapshotTruth == Spec => []SnapshotTruth
<1>1. Inv => SnapshotTruth BY DEF Inv
<1>2. QED BY <1>1, SpecInv, PTL

(* The one-shot arm and its database copy agree.                           *)
THEOREM DaemonArmDurable == Spec => []ArmDurable
<1>1. Inv => ArmDurable BY DEF Inv
<1>2. QED BY <1>1, SpecInv, PTL

(* The assertion of _state_configuring can fail only after a fallback test *)
(* whose radio could not be turned back on.                                *)
THEOREM ConfiguringAssertion ==
  Spec => [](state = "CONFIGURING" /\ ~gaveUp => profile # None)
<1>1. Inv => (state = "CONFIGURING" /\ ~gaveUp => profile # None)
  BY DEF Inv, ActiveIsSelected, ProfileStates
<1>2. QED BY <1>1, SpecInv, PTL

(* What TestEndsWithRadioOn says of one step.                              *)
TestExit ==
  (state = "FALLBACK_TEST" /\ state' # "FALLBACK_TEST" /\ ~Restart)
    => radio' \/ state' = "DEGRADED"

(* Leaving a fallback test, step by step.                                  *)
LEMMA TestStep == Inv /\ [Next]_vars => TestExit
<1> SUFFICES ASSUME Inv, [Next]_vars PROVE TestExit OBVIOUS
<1>0. FlagType BY TypeParts DEF Inv
<1> USE DEF vars, worldVars, choiceVars, armVars, policyVars, operatorVars,
           daemonVars, TestExit, Go, DropModem, ForgetModem, ConsumeArm, StartTest,
           TestFrom, Disconnect, DisconnectFrom, Fail, ConnectingFrame,
           AdvanceVariantOrFail, HasNextVariant, Activating, EscapePpp,
           CountPppReset, FullResetModem, ModemReboots, LetGo, ConnectedFrame,
           LastDitch, AdoptBuiltin, Due, Consume, StayAttached, RecoverFrame,
           ActionFails, ResetIsLost, EndTest, AfterTest, Accepts, Reattachable,
           Blocked, Reevaluate, ReselectFrom, OperatorFrame, Promising
<1>1. CASE DetectModem BY <1>0, <1>1 DEF DetectModem
<1>2. CASE ModemMute BY <1>0, <1>2 DEF ModemMute
<1>3. CASE SimAbsent BY <1>0, <1>3 DEF SimAbsent
<1>4. CASE SimFound BY <1>0, <1>4 DEF SimFound
<1>5. CASE ArmedAttach BY <1>0, <1>5 DEF ArmedAttach
<1>6. CASE NoProfile BY <1>0, <1>6 DEF NoProfile
<1>7. CASE ProfileSelected BY <1>0, <1>7 DEF ProfileSelected
<1>8. CASE Configure BY <1>0, <1>8 DEF Configure
<1>9. CASE Kick BY <1>0, <1>9 DEF Kick
<1>10. CASE ConnectTimeout BY <1>0, <1>10 DEF ConnectTimeout
<1>11. CASE LinkUp BY <1>0, <1>11 DEF LinkUp
<1>12. CASE PppReset BY <1>0, <1>12 DEF PppReset
<1>13. CASE SimRemoved BY <1>0, <1>13 DEF SimRemoved
<1>14. CASE SimSwapped BY <1>0, <1>14 DEF SimSwapped
<1>15. CASE ConnectionLost BY <1>0, <1>15 DEF ConnectionLost
<1>16. CASE StretchResetsLadder BY <1>0, <1>16 DEF StretchResetsLadder
<1>17. CASE SwitchToBuiltin BY <1>0, <1>17 DEF SwitchToBuiltin
<1>18. CASE RecoverReconnect BY <1>0, <1>18 DEF RecoverReconnect
<1>19. CASE RecoverDisableEnable BY <1>0, <1>19 DEF RecoverDisableEnable
<1>20. CASE RecoverAtReset BY <1>0, <1>20 DEF RecoverAtReset
<1>21. CASE RecoverPowerCycle BY <1>0, <1>21 DEF RecoverPowerCycle
<1>22. CASE WindowElapsed BY <1>0, <1>22 DEF WindowElapsed
<1>23. CASE Reconnect BY <1>0, <1>23 DEF Reconnect
<1>24. CASE ResetModem BY <1>0, <1>24 DEF ResetModem
<1>25. CASE SetAtPort BY <1>0, <1>25 DEF SetAtPort
<1>26. CASE SetRat BY <1>0, <1>26 DEF SetRat
<1>27. CASE ForceProfile BY <1>0, <1>27 DEF ForceProfile
<1>28. CASE ReleaseForce BY <1>0, <1>28 DEF ReleaseForce
<1>29. CASE ReloadProfiles BY <1>0, <1>29 DEF ReloadProfiles
<1>30. CASE StartFallbackTest BY <1>0, <1>30 DEF StartFallbackTest
<1>31. CASE AbortFallbackTest BY <1>0, <1>31 DEF AbortFallbackTest
<1>32. CASE ArmFallbackTest BY <1>0, <1>32 DEF ArmFallbackTest
<1>33. CASE SimChanges BY <1>0, <1>33 DEF SimChanges
<1>34. CASE SimRefreshUrc BY <1>0, <1>34 DEF SimRefreshUrc
<1>35. CASE Registered BY <1>0, <1>35 DEF Registered
<1>36. CASE LinkDrops BY <1>0, <1>36 DEF LinkDrops
<1>37. CASE Elapse BY <1>0, <1>37 DEF Elapse
<1>38. CASE Restart BY <1>0, <1>38 DEF Restart
<1>39. CASE Settle BY <1>0, <1>39 DEF Settle
<1>40. CASE UNCHANGED vars BY <1>0, <1>40
<1>41. QED
  BY <1>1, <1>2, <1>3, <1>4, <1>5, <1>6, <1>7, <1>8, <1>9, <1>10,
     <1>11, <1>12, <1>13, <1>14, <1>15, <1>16, <1>17, <1>18, <1>19, <1>20,
     <1>21, <1>22, <1>23, <1>24, <1>25, <1>26, <1>27, <1>28, <1>29, <1>30,
     <1>31, <1>32, <1>33, <1>34, <1>35, <1>36, <1>37, <1>38, <1>39, <1>40
  DEF Next, Handler, Command, Environment

(* Nothing but the end of the airplane window, an abort or a restart ends  *)
(* a fallback test, and the first two leave the radio on or report a       *)
(* failure to the ladder.                                                  *)
THEOREM DaemonTestEndsWithRadioOn == Spec => TestEndsWithRadioOn
<1>1. QED BY SpecInv, TestStep, PTL DEF Spec, TestEndsWithRadioOn, TestExit

-----------------------------------------------------------------------------
(* The connection daemon implements Uplink: every step of Daemon, seen     *)
(* through the refinement mapping of Daemon, is a step of Uplink or leaves *)
(* what the watcher sees unchanged.  The inductive invariant is needed for *)
(* it: the state alone does not say that a service has a profile, that it  *)
(* is the published one, or that the SIM is known when one starts.         *)
UplinkStep == [U!Next]_U!uplinkVars

(* What of the invariant the mapping needs, before and after a step.       *)
Seen ==
  /\ state \in State /\ FlagType /\ ChoiceType
  /\ Attached /\ SimKnown
  /\ (state \in ProfileStates /\ ~gaveUp) =>
        /\ snapProfile = profile /\ profile # None
        /\ ~fallbackActive => profile \in Names
        /\ fallbackActive => profile = Builtin

LEMMA InvSeen == Inv => Seen
<1> SUFFICES ASSUME Inv PROVE Seen OBVIOUS
<1>1. state \in State /\ FlagType /\ ChoiceType /\ Attached /\ SimKnown
  BY TypeParts DEF Inv
<1>2. ASSUME state \in ProfileStates, ~gaveUp
      PROVE  /\ snapProfile = profile /\ profile # None
             /\ ~fallbackActive => profile \in Names
             /\ fallbackActive => profile = Builtin
  <2>1. snapSim \in Sims /\ loaded \in Loads /\ forced \in Names \union {None}
    BY <1>1, <1>2 DEF SimKnown, ChoiceType, ProfileStates
  <2>2. SelectProfile(snapSim) \in Profiles \union {None} /\ SelectProfile(snapSim) # Builtin
    BY <2>1, SelectForType DEF SelectProfile
  <2>3. QED BY <1>2, <2>2 DEF Inv, ActiveIsSelected, SnapshotTruth, Profiles
<1>3. QED BY <1>1, <1>2 DEF Seen

LEMMA InvSeenNext == Inv' => Seen'
BY InvSeen, PTL

(* Every step of the daemon is a step of the abstract uplink or a stutter. *)
LEMMA RefineStep == Seen /\ Seen' /\ [Next]_vars => UplinkStep
<1> SUFFICES ASSUME Seen, Seen', [Next]_vars PROVE UplinkStep OBVIOUS
<1>0. Seen /\ Seen' OBVIOUS
<1> USE DEF vars, worldVars, choiceVars, armVars, policyVars,
           operatorVars, daemonVars, Seen, ChoiceType, FlagType, State,
           Attached, SimKnown, ProfileStates, Go, DropModem, ForgetModem,
           StartTest, TestFrom, Fail, ConnectingFrame,
           AdvanceVariantOrFail, FullResetModem, LetGo, ConnectedFrame,
           LastDitch, AdoptBuiltin, Due, Consume, StayAttached,
           RecoverFrame, ActionFails, EndTest, AfterTest, Accepts,
           Reattachable, Reevaluate, ReselectFrom, OperatorFrame,
           SimUnchanged, UplinkStep, U!Next, U!Attach, U!Identify,
           U!Serve, U!ComeAndGo, U!LastResort, U!Release, U!BeginTest,
           U!EndTest, U!Detach, U!Stop, UplinkPhase, UplinkUsing,
           U!uplinkVars
<1>1. CASE DetectModem BY <1>0, <1>1, Basics, DaemonConstants DEF DetectModem
<1>2. CASE ModemMute BY <1>0, <1>2, Basics, DaemonConstants DEF ModemMute
<1>3. CASE SimAbsent BY <1>0, <1>3, Basics, DaemonConstants DEF SimAbsent
<1>4. CASE SimFound BY <1>0, <1>4, Basics, DaemonConstants DEF SimFound
<1>5. CASE ArmedAttach BY <1>0, <1>5, Basics, DaemonConstants DEF ArmedAttach
<1>6. CASE NoProfile BY <1>0, <1>6, Basics, DaemonConstants DEF NoProfile
<1>7. CASE ProfileSelected
  <2>1. snapSim \in Sims BY <1>0, <1>7 DEF ProfileSelected
  <2>2. SelectProfile(snapSim) \in Profiles \union {None} /\ SelectProfile(snapSim) # Builtin
    BY <1>0, <2>1, SelectForType DEF SelectProfile
  <2>3. snapProfile' \in Names /\ snapSim' = snapSim /\ gaveUp' = FALSE
    BY <1>7, <2>2 DEF ProfileSelected, Profiles
  <2>4. state = "SIM_READY" /\ state' = "CONFIGURING" BY <1>7 DEF ProfileSelected
  <2>5. U!Serve BY <1>0, <2>1, <2>3, <2>4, Basics
  <2>6. QED BY <2>5
<1>8. CASE Configure BY <1>0, <1>8, Basics, DaemonConstants DEF Configure
<1>9. CASE Kick BY <1>0, <1>9, Basics, DaemonConstants DEF Kick
<1>10. CASE ConnectTimeout BY <1>0, <1>10, Basics, DaemonConstants DEF ConnectTimeout
<1>11. CASE LinkUp BY <1>0, <1>11, Basics, DaemonConstants DEF LinkUp
<1>12. CASE PppReset BY <1>0, <1>12, Basics, DaemonConstants DEF PppReset
<1>13. CASE SimRemoved BY <1>0, <1>13, Basics, DaemonConstants DEF SimRemoved
<1>14. CASE SimSwapped BY <1>0, <1>14, Basics, DaemonConstants DEF SimSwapped
<1>15. CASE ConnectionLost BY <1>0, <1>15, Basics, DaemonConstants DEF ConnectionLost
<1>16. CASE StretchResetsLadder BY <1>0, <1>16, Basics, DaemonConstants DEF StretchResetsLadder
<1>17. CASE SwitchToBuiltin BY <1>0, <1>17, Basics, DaemonConstants DEF SwitchToBuiltin
<1>18. CASE RecoverReconnect BY <1>0, <1>18, Basics, DaemonConstants DEF RecoverReconnect
<1>19. CASE RecoverDisableEnable BY <1>0, <1>19, Basics, DaemonConstants DEF RecoverDisableEnable
<1>20. CASE RecoverAtReset BY <1>0, <1>20, Basics, DaemonConstants DEF RecoverAtReset
<1>21. CASE RecoverPowerCycle
  <2>1. CASE DropModem
    <3>1. U!Detach BY <2>1, Basics
    <3>2. QED BY <3>1
  <2>2. CASE ActionFails /\ StayAttached
    BY <1>0, <1>21, <2>2 DEF RecoverPowerCycle
  <2>3. QED BY <1>21, <2>1, <2>2 DEF RecoverPowerCycle
<1>22. CASE WindowElapsed BY <1>0, <1>22, Basics, DaemonConstants DEF WindowElapsed
<1>23. CASE Reconnect BY <1>0, <1>23, Basics, DaemonConstants DEF Reconnect
<1>24. CASE ResetModem BY <1>0, <1>24, Basics, DaemonConstants DEF ResetModem
<1>25. CASE SetAtPort BY <1>0, <1>25, Basics, DaemonConstants DEF SetAtPort
<1>26. CASE SetRat BY <1>0, <1>26, Basics, DaemonConstants DEF SetRat
<1>27. CASE ForceProfile BY <1>0, <1>27, Basics, DaemonConstants DEF ForceProfile
<1>28. CASE ReleaseForce BY <1>0, <1>28, Basics, DaemonConstants DEF ReleaseForce
<1>29. CASE ReloadProfiles BY <1>0, <1>29, Basics, DaemonConstants DEF ReloadProfiles
<1>30. CASE StartFallbackTest BY <1>0, <1>30, Basics, DaemonConstants DEF StartFallbackTest
<1>31. CASE AbortFallbackTest BY <1>0, <1>31, Basics, DaemonConstants DEF AbortFallbackTest
<1>32. CASE ArmFallbackTest BY <1>0, <1>32, Basics, DaemonConstants DEF ArmFallbackTest
<1>33. CASE SimChanges BY <1>0, <1>33, Basics, DaemonConstants DEF SimChanges
<1>34. CASE SimRefreshUrc BY <1>0, <1>34, Basics, DaemonConstants DEF SimRefreshUrc
<1>35. CASE Registered BY <1>0, <1>35, Basics, DaemonConstants DEF Registered
<1>36. CASE LinkDrops BY <1>0, <1>36, Basics, DaemonConstants DEF LinkDrops
<1>37. CASE Elapse BY <1>0, <1>37, Basics, DaemonConstants DEF Elapse
<1>38. CASE Restart BY <1>0, <1>38, Basics, DaemonConstants DEF Restart
<1>39. CASE Settle BY <1>0, <1>39, Basics, DaemonConstants DEF Settle
<1>40. CASE UNCHANGED vars BY <1>0, <1>40, Basics, DaemonConstants
<1>41. QED
  BY <1>1, <1>2, <1>3, <1>4, <1>5, <1>6, <1>7, <1>8, <1>9, <1>10,
     <1>11, <1>12, <1>13, <1>14, <1>15, <1>16, <1>17, <1>18, <1>19, <1>20,
     <1>21, <1>22, <1>23, <1>24, <1>25, <1>26, <1>27, <1>28, <1>29, <1>30,
     <1>31, <1>32, <1>33, <1>34, <1>35, <1>36, <1>37, <1>38, <1>39, <1>40
  DEF Next, Handler, Command, Environment

(* The web UI, the heartbeat and the probes, which look at the daemon only *)
(* through the StateStore, may rely on Uplink.                             *)
THEOREM DaemonImplementsUplink == Spec => ImplementsUplink
<1>1. Init => U!Init
  BY DEF Init, U!Init, UplinkPhase, UplinkUsing
<1>2. Inv /\ Inv' /\ [Next]_vars => [U!Next]_U!uplinkVars
  BY InvSeen, InvSeenNext, RefineStep DEF UplinkStep
<1>3. QED
  BY <1>1, <1>2, SpecInv, PTL DEF Spec, ImplementsUplink, U!Spec
=============================================================================
