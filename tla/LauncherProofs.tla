--------------------------- MODULE LauncherProofs ---------------------------
(***************************************************************************)
(* For any games, players, wheels and paths: whatever raises and wherever  *)
(* a launcher is killed, EmulationStation gets back what it had but for    *)
(* what the kill or a failed command spoiled, the game that runs is the    *)
(* one asked for, and evmapy is stopped as far and reads no pad that is    *)
(* gone.  The invariant says of each resource who knows that it is in use: *)
(* the launcher's own variables until the block that puts it back, and     *)
(* "spoiled" from then on.                                                 *)
(***************************************************************************)
EXTENDS Launcher, TLAPS

LEMMA InitIInv == Init => IInv
<1> SUFFICES ASSUME Init PROVE IInv
  OBVIOUS
<1>1. StepTyped
  BY DEF Init, StepTyped
<1>2. own \in Own /\ mounts \in Mounts
  BY DEF Init, Own, Mounts, Fresh
<1>3. launches \in 0 .. MaxLaunches /\ changes \in 0 .. MaxChanges
  BY LauncherAssumption DEF Init
<1>4. active \in [Player -> Path \cup {NoPath}]
  BY DEF Init
<1>5. LauncherTyped /\ PadsTyped
  BY <1>2, <1>3, <1>4 DEF Init, LauncherTyped, PadsTyped
<1>6. ScreenKnown /\ MouseKnown /\ ContextKnown /\ GpuKnown /\ WheelsKnown
  BY DEF Init, ScreenKnown, MouseKnown, ContextKnown, GpuKnown, WheelsKnown, Fresh
<1>7. MountsKnown /\ EvmapyKnown /\ PadsKnown
  BY DEF Init, MountsKnown, EvmapyKnown, PadsKnown, Fresh
<1> QED
  BY <1>1, <1>5, <1>6, <1>7 DEF IInv, TypeOK

-----------------------------------------------------------------------------
(* Setting up.                                                             *)

LEMMA StepLaunch == ASSUME IInv, NEW g \in Game, Launch(g) PROVE IInv'
<1>1. StepTyped'
  BY DEF Launch, system, pads, thread, IInv, TypeOK, StepTyped, Setup, Teardown
<1>2. LauncherTyped'
  BY LauncherAssumption DEF Launch, system, pads, thread, IInv, TypeOK, LauncherTyped
<1>3. PadsTyped'
  BY DEF Launch, system, pads, thread, IInv, TypeOK, PadsTyped
<1>4. ScreenKnown' /\ MouseKnown' /\ ContextKnown' /\ GpuKnown' /\ WheelsKnown'
  BY DEF Launch, system, pads, thread, IInv, ScreenKnown, MouseKnown, ContextKnown,
       GpuKnown, WheelsKnown, Setup, Teardown
<1>5. MountsKnown' /\ EvmapyKnown' /\ PadsKnown'
  BY DEF Launch, system, pads, thread, IInv, MountsKnown, EvmapyKnown, PadsKnown
<1> QED
  BY <1>1, <1>2, <1>3, <1>4, <1>5 DEF IInv, TypeOK

LEMMA StepMount == ASSUME IInv, Mount PROVE IInv'
<1>1. StepTyped'
  BY DEF Mount, Go, Raise, pads, thread, IInv, TypeOK, StepTyped, Setup, Teardown
<1>2. mounts' \in Mounts
  BY NoneAssumption DEF Mount, Go, Raise, pads, thread, Squash, IInv, TypeOK,
       LauncherTyped, Mounts, MountsKnown
<1>3. own' \in Own /\ spoiled' \subseteq Resource
  BY DEF Mount, Go, Raise, pads, thread, Squash, IInv, TypeOK, LauncherTyped, Own,
       Resource
<1>4. LauncherTyped'
  BY <1>2, <1>3 DEF Mount, Go, Raise, pads, thread, Squash, IInv, TypeOK, LauncherTyped,
       Mounts
<1>5. PadsTyped'
  BY DEF Mount, Go, Raise, pads, thread, Squash, IInv, TypeOK, PadsTyped
<1>6. ScreenKnown' /\ MouseKnown' /\ ContextKnown' /\ GpuKnown' /\ WheelsKnown'
  BY DEF Mount, Go, Raise, pads, thread, Squash, IInv, TypeOK, LauncherTyped, Own,
       ScreenKnown, MouseKnown, ContextKnown, GpuKnown, WheelsKnown, Setup, Teardown
<1>7. MountsKnown'
  BY NoneAssumption DEF Mount, Go, Raise, pads, thread, Squash, IInv, TypeOK,
       LauncherTyped, Own, Mounts, MountsKnown
<1>8. EvmapyKnown' /\ PadsKnown'
  BY DEF Mount, Go, Raise, pads, thread, Squash, IInv, TypeOK, LauncherTyped, PadsTyped,
       Own, EvmapyKnown, PadsKnown
<1> QED
  BY <1>1, <1>4, <1>5, <1>6, <1>7, <1>8 DEF IInv, TypeOK

LEMMA StepLoad == ASSUME IInv, Load PROVE IInv'
<1>1. StepTyped'
  BY DEF Load, Go, Raise, system, pads, IInv, TypeOK, StepTyped, Setup, Teardown
<1>2. LauncherTyped'
  BY DEF Load, Go, Raise, system, pads, IInv, TypeOK, LauncherTyped
<1>3. PadsTyped'
  BY DEF Load, Go, Raise, system, pads, IInv, TypeOK, PadsTyped
<1>4. ScreenKnown' /\ MouseKnown' /\ ContextKnown' /\ GpuKnown' /\ WheelsKnown'
  BY DEF Load, Go, Raise, system, pads, IInv, ScreenKnown, MouseKnown, ContextKnown,
       GpuKnown, WheelsKnown, Setup, Teardown
<1>5. MountsKnown' /\ EvmapyKnown' /\ PadsKnown'
  BY DEF Load, Go, Raise, system, pads, IInv, TypeOK, PadsTyped, MountsKnown,
       EvmapyKnown, PadsKnown
<1> QED
  BY <1>1, <1>2, <1>3, <1>4, <1>5 DEF IInv, TypeOK

LEMMA StepConfigureWheels == ASSUME IInv, ConfigureWheels PROVE IInv'
<1>1. StepTyped'
  BY DEF ConfigureWheels, Go, Raise, pads, thread, IInv, TypeOK, StepTyped, Setup,
       Teardown
<1>2. LauncherTyped'
  BY DEF ConfigureWheels, Go, Raise, pads, thread, IInv, TypeOK, LauncherTyped, Own,
       Resource
<1>3. PadsTyped'
  BY DEF ConfigureWheels, Go, Raise, pads, thread, IInv, TypeOK, PadsTyped
<1>4. ScreenKnown' /\ MouseKnown' /\ ContextKnown' /\ GpuKnown' /\ WheelsKnown'
  BY DEF ConfigureWheels, Go, Raise, pads, thread, IInv, TypeOK, LauncherTyped, Own,
       ScreenKnown, MouseKnown, ContextKnown, GpuKnown, WheelsKnown, Setup, Teardown
<1>5. MountsKnown' /\ EvmapyKnown' /\ PadsKnown'
  BY DEF ConfigureWheels, Go, Raise, pads, thread, IInv, TypeOK, LauncherTyped, Own,
       MountsKnown, EvmapyKnown, PadsKnown
<1> QED
  BY <1>1, <1>2, <1>3, <1>4, <1>5 DEF IInv, TypeOK

LEMMA StepLowerMode == ASSUME IInv, LowerMode PROVE IInv'
<1>1. StepTyped'
  BY DEF LowerMode, Go, Raise, pads, thread, IInv, TypeOK, StepTyped, Setup, Teardown
<1>2. LauncherTyped'
  BY DEF LowerMode, Go, Raise, pads, thread, IInv, TypeOK, LauncherTyped, Own
<1>3. PadsTyped'
  BY DEF LowerMode, Go, Raise, pads, thread, IInv, TypeOK, PadsTyped
<1>4. ScreenKnown' /\ MouseKnown' /\ ContextKnown' /\ GpuKnown' /\ WheelsKnown'
  BY DEF LowerMode, Go, Raise, pads, thread, IInv, TypeOK, LauncherTyped, Own,
       ScreenKnown, MouseKnown, ContextKnown, GpuKnown, WheelsKnown, Setup, Teardown
<1>5. MountsKnown' /\ EvmapyKnown' /\ PadsKnown'
  BY DEF LowerMode, Go, Raise, pads, thread, IInv, TypeOK, LauncherTyped, Own,
       MountsKnown, EvmapyKnown, PadsKnown
<1> QED
  BY <1>1, <1>2, <1>3, <1>4, <1>5 DEF IInv, TypeOK

LEMMA StepSetMode == ASSUME IInv, SetMode PROVE IInv'
<1>1. StepTyped'
  BY DEF SetMode, Go, Raise, pads, thread, IInv, TypeOK, StepTyped, Setup, Teardown
<1>2. LauncherTyped'
  BY DEF SetMode, Go, Raise, pads, thread, IInv, TypeOK, LauncherTyped, Own
<1>3. PadsTyped'
  BY DEF SetMode, Go, Raise, pads, thread, IInv, TypeOK, PadsTyped
<1>4. ScreenKnown' /\ MouseKnown' /\ ContextKnown' /\ GpuKnown' /\ WheelsKnown'
  BY DEF SetMode, Go, Raise, pads, thread, IInv, TypeOK, LauncherTyped, Own,
       ScreenKnown, MouseKnown, ContextKnown, GpuKnown, WheelsKnown, Setup, Teardown
<1>5. MountsKnown' /\ EvmapyKnown' /\ PadsKnown'
  BY DEF SetMode, Go, Raise, pads, thread, IInv, TypeOK, LauncherTyped, Own,
       MountsKnown, EvmapyKnown, PadsKnown
<1> QED
  BY <1>1, <1>2, <1>3, <1>4, <1>5 DEF IInv, TypeOK

LEMMA StepShowMouse == ASSUME IInv, ShowMouse PROVE IInv'
<1>1. StepTyped'
  BY DEF ShowMouse, Go, Raise, pads, thread, IInv, TypeOK, StepTyped, Setup, Teardown
<1>2. LauncherTyped'
  BY DEF ShowMouse, Go, Raise, pads, thread, IInv, TypeOK, LauncherTyped, Own
<1>3. PadsTyped'
  BY DEF ShowMouse, Go, Raise, pads, thread, IInv, TypeOK, PadsTyped
<1>4. ScreenKnown' /\ MouseKnown' /\ ContextKnown' /\ GpuKnown' /\ WheelsKnown'
  BY DEF ShowMouse, Go, Raise, pads, thread, IInv, TypeOK, LauncherTyped, Own,
       ScreenKnown, MouseKnown, ContextKnown, GpuKnown, WheelsKnown, Setup, Teardown
<1>5. MountsKnown' /\ EvmapyKnown' /\ PadsKnown'
  BY DEF ShowMouse, Go, Raise, pads, thread, IInv, TypeOK, LauncherTyped, Own,
       MountsKnown, EvmapyKnown, PadsKnown
<1> QED
  BY <1>1, <1>2, <1>3, <1>4, <1>5 DEF IInv, TypeOK

LEMMA StepEnterEvmapy == ASSUME IInv, EnterEvmapy PROVE IInv'
<1>1. StepTyped'
  BY DEF EnterEvmapy, Go, Raise, pads, thread, IInv, TypeOK, StepTyped, Setup,
       Teardown
<1>2. LauncherTyped'
  BY DEF EnterEvmapy, Go, Raise, pads, thread, IInv, TypeOK, LauncherTyped, Own,
       Resource
<1>3. PadsTyped'
  BY DEF EnterEvmapy, Go, Raise, pads, thread, IInv, TypeOK, PadsTyped, Running,
       Stopped, There
<1>4. ScreenKnown' /\ MouseKnown' /\ ContextKnown' /\ GpuKnown' /\ WheelsKnown'
  BY DEF EnterEvmapy, Go, Raise, pads, thread, IInv, TypeOK, LauncherTyped, Own,
       ScreenKnown, MouseKnown, ContextKnown, GpuKnown, WheelsKnown, Setup, Teardown
<1>5. MountsKnown' /\ EvmapyKnown' /\ PadsKnown'
  BY DEF EnterEvmapy, Go, Raise, pads, thread, IInv, TypeOK, LauncherTyped, Own,
       PadsTyped, MountsKnown, EvmapyKnown, PadsKnown
<1> QED
  BY <1>1, <1>2, <1>3, <1>4, <1>5 DEF IInv, TypeOK

LEMMA StepEnterContext == ASSUME IInv, EnterContext PROVE IInv'
<1>1. StepTyped'
  BY DEF EnterContext, Go, Raise, pads, thread, IInv, TypeOK, StepTyped, Setup, Teardown
<1>2. LauncherTyped'
  BY DEF EnterContext, Go, Raise, pads, thread, IInv, TypeOK, LauncherTyped, MountsKnown
<1>3. PadsTyped'
  BY DEF EnterContext, Go, Raise, pads, thread, IInv, TypeOK, PadsTyped
<1>4. ScreenKnown' /\ MouseKnown' /\ ContextKnown' /\ GpuKnown' /\ WheelsKnown'
  BY DEF EnterContext, Go, Raise, pads, thread, IInv, ScreenKnown, MouseKnown,
       ContextKnown, GpuKnown, WheelsKnown, Setup, Teardown
<1>5. MountsKnown' /\ EvmapyKnown' /\ PadsKnown'
  BY DEF EnterContext, Go, Raise, pads, thread, IInv, MountsKnown, EvmapyKnown,
       PadsKnown
<1> QED
  BY <1>1, <1>2, <1>3, <1>4, <1>5 DEF IInv, TypeOK

LEMMA StepGenerate == ASSUME IInv, Generate PROVE IInv'
<1>1. StepTyped'
  BY DEF Generate, Go, Raise, system, pads, IInv, TypeOK, StepTyped, Setup, Teardown
<1>2. LauncherTyped'
  BY DEF Generate, Go, Raise, system, pads, IInv, TypeOK, LauncherTyped
<1>3. PadsTyped'
  BY DEF Generate, Go, Raise, system, pads, IInv, TypeOK, PadsTyped
<1>4. ScreenKnown' /\ MouseKnown' /\ ContextKnown' /\ GpuKnown' /\ WheelsKnown'
  BY DEF Generate, Go, Raise, system, pads, IInv, ScreenKnown, MouseKnown, ContextKnown,
       GpuKnown, WheelsKnown, Setup, Teardown
<1>5. MountsKnown' /\ EvmapyKnown' /\ PadsKnown'
  BY DEF Generate, Go, Raise, system, pads, IInv, MountsKnown, EvmapyKnown, PadsKnown
<1> QED
  BY <1>1, <1>2, <1>3, <1>4, <1>5 DEF IInv, TypeOK

LEMMA StepBoost == ASSUME IInv, Boost PROVE IInv'
<1>1. StepTyped'
  BY DEF Boost, Go, pads, thread, IInv, TypeOK, StepTyped, Setup, Teardown
<1>2. LauncherTyped'
  BY DEF Boost, Go, pads, thread, IInv, TypeOK, LauncherTyped, Own
<1>3. PadsTyped'
  BY DEF Boost, Go, pads, thread, IInv, TypeOK, PadsTyped
<1>4. ScreenKnown' /\ MouseKnown' /\ ContextKnown' /\ GpuKnown' /\ WheelsKnown'
  BY DEF Boost, Go, pads, thread, IInv, TypeOK, LauncherTyped, Own, ScreenKnown,
       MouseKnown, ContextKnown, GpuKnown, WheelsKnown, Setup, Teardown
<1>5. MountsKnown' /\ EvmapyKnown' /\ PadsKnown'
  BY DEF Boost, Go, pads, thread, IInv, TypeOK, LauncherTyped, Own, MountsKnown,
       EvmapyKnown, PadsKnown
<1> QED
  BY <1>1, <1>2, <1>3, <1>4, <1>5 DEF IInv, TypeOK

LEMMA StepRunCommand == ASSUME IInv, RunCommand PROVE IInv'
<1>1. StepTyped'
  BY DEF RunCommand, Go, Raise, system, pads, thread, IInv, TypeOK, StepTyped, Setup,
       Teardown
<1>2. LauncherTyped'
  BY DEF RunCommand, Go, Raise, system, pads, thread, IInv, TypeOK, LauncherTyped
<1>3. PadsTyped'
  BY DEF RunCommand, Go, Raise, system, pads, thread, IInv, TypeOK, PadsTyped
<1>4. ScreenKnown' /\ MouseKnown' /\ ContextKnown' /\ GpuKnown' /\ WheelsKnown'
  BY DEF RunCommand, Go, Raise, system, pads, thread, IInv, ScreenKnown, MouseKnown,
       ContextKnown, GpuKnown, WheelsKnown, Setup, Teardown
<1>5. MountsKnown' /\ EvmapyKnown' /\ PadsKnown'
  BY DEF RunCommand, Go, Raise, system, pads, thread, IInv, MountsKnown, EvmapyKnown,
       PadsKnown
<1> QED
  BY <1>1, <1>2, <1>3, <1>4, <1>5 DEF IInv, TypeOK

LEMMA StepGameEnds == ASSUME IInv, GameEnds PROVE IInv'
<1>1. StepTyped'
  BY DEF GameEnds, Go, Raise, system, pads, thread, IInv, TypeOK, StepTyped, Setup,
       Teardown
<1>2. LauncherTyped'
  BY DEF GameEnds, Go, Raise, system, pads, thread, IInv, TypeOK, LauncherTyped
<1>3. PadsTyped'
  BY DEF GameEnds, Go, Raise, system, pads, thread, IInv, TypeOK, PadsTyped
<1>4. ScreenKnown' /\ MouseKnown' /\ ContextKnown' /\ GpuKnown' /\ WheelsKnown'
  BY DEF GameEnds, Go, Raise, system, pads, thread, IInv, ScreenKnown, MouseKnown,
       ContextKnown, GpuKnown, WheelsKnown, Setup, Teardown
<1>5. MountsKnown' /\ EvmapyKnown' /\ PadsKnown'
  BY DEF GameEnds, Go, Raise, system, pads, thread, IInv, MountsKnown, EvmapyKnown,
       PadsKnown
<1> QED
  BY <1>1, <1>2, <1>3, <1>4, <1>5 DEF IInv, TypeOK

-----------------------------------------------------------------------------
(* Putting back.                                                           *)

LEMMA StepUnboost == ASSUME IInv, Unboost PROVE IInv'
<1>1. StepTyped'
  BY DEF Unboost, Go, pads, thread, IInv, TypeOK, StepTyped, Setup, Teardown
<1>2. LauncherTyped'
  BY DEF Unboost, Go, pads, thread, IInv, TypeOK, LauncherTyped, Own
<1>3. PadsTyped'
  BY DEF Unboost, Go, pads, thread, IInv, TypeOK, PadsTyped
<1>4. ScreenKnown' /\ MouseKnown' /\ ContextKnown' /\ GpuKnown' /\ WheelsKnown'
  BY DEF Unboost, Go, pads, thread, IInv, TypeOK, LauncherTyped, Own, ScreenKnown,
       MouseKnown, ContextKnown, GpuKnown, WheelsKnown, Setup, Teardown
<1>5. MountsKnown' /\ EvmapyKnown' /\ PadsKnown'
  BY DEF Unboost, Go, pads, thread, IInv, TypeOK, LauncherTyped, Own, MountsKnown,
       EvmapyKnown, PadsKnown
<1> QED
  BY <1>1, <1>2, <1>3, <1>4, <1>5 DEF IInv, TypeOK

LEMMA StepDefaultContext == ASSUME IInv, DefaultContext PROVE IInv'
<1>1. StepTyped'
  BY DEF DefaultContext, Go, pads, thread, IInv, TypeOK, StepTyped, Setup, Teardown
<1>2. LauncherTyped'
  BY DEF DefaultContext, Go, pads, thread, IInv, TypeOK, LauncherTyped, MountsKnown
<1>3. PadsTyped'
  BY DEF DefaultContext, Go, pads, thread, IInv, TypeOK, PadsTyped
<1>4. ScreenKnown' /\ MouseKnown' /\ ContextKnown' /\ GpuKnown' /\ WheelsKnown'
  BY DEF DefaultContext, Go, pads, thread, IInv, ScreenKnown, MouseKnown, ContextKnown,
       GpuKnown, WheelsKnown, Setup, Teardown
<1>5. MountsKnown' /\ EvmapyKnown' /\ PadsKnown'
  BY DEF DefaultContext, Go, pads, thread, IInv, MountsKnown, EvmapyKnown, PadsKnown
<1> QED
  BY <1>1, <1>2, <1>3, <1>4, <1>5 DEF IInv, TypeOK

LEMMA StepExitEvmapy == ASSUME IInv, ExitEvmapy PROVE IInv'
<1>1. StepTyped'
  BY DEF ExitEvmapy, system, pads, thread, IInv, TypeOK, StepTyped, Setup, Teardown
<1>2. LauncherTyped'
  BY DEF ExitEvmapy, system, pads, thread, IInv, TypeOK, LauncherTyped, Own
<1>3. PadsTyped'
  BY DEF ExitEvmapy, system, pads, thread, IInv, TypeOK, PadsTyped, Running, Stopped
<1>4. ScreenKnown' /\ MouseKnown' /\ ContextKnown' /\ GpuKnown' /\ WheelsKnown'
  BY DEF ExitEvmapy, system, pads, thread, IInv, TypeOK, LauncherTyped, Own,
       ScreenKnown, MouseKnown, ContextKnown, GpuKnown, WheelsKnown, Setup, Teardown
<1>5. MountsKnown' /\ EvmapyKnown' /\ PadsKnown'
  BY DEF ExitEvmapy, system, pads, thread, IInv, TypeOK, LauncherTyped, Own, PadsTyped,
       MountsKnown, EvmapyKnown, PadsKnown
<1> QED
  BY <1>1, <1>2, <1>3, <1>4, <1>5 DEF IInv, TypeOK

LEMMA StepStopHooks == ASSUME IInv, StopHooks PROVE IInv'
<1>1. StepTyped'
  BY DEF StopHooks, Go, Raise, system, pads, thread, IInv, TypeOK, StepTyped, Setup,
       Teardown
<1>2. LauncherTyped'
  BY DEF StopHooks, Go, Raise, system, pads, thread, IInv, TypeOK, LauncherTyped
<1>3. PadsTyped'
  BY DEF StopHooks, Go, Raise, system, pads, thread, IInv, TypeOK, PadsTyped
<1>4. ScreenKnown' /\ MouseKnown' /\ ContextKnown' /\ GpuKnown' /\ WheelsKnown'
  BY DEF StopHooks, Go, Raise, system, pads, thread, IInv, ScreenKnown, MouseKnown,
       ContextKnown, GpuKnown, WheelsKnown, Setup, Teardown
<1>5. MountsKnown' /\ EvmapyKnown' /\ PadsKnown'
  BY DEF StopHooks, Go, Raise, system, pads, thread, IInv, MountsKnown, EvmapyKnown,
       PadsKnown
<1> QED
  BY <1>1, <1>2, <1>3, <1>4, <1>5 DEF IInv, TypeOK

LEMMA StepRestoreMode == ASSUME IInv, RestoreMode PROVE IInv'
<1>1. StepTyped'
  BY DEF RestoreMode, Go, pads, thread, IInv, TypeOK, StepTyped, Setup, Teardown
<1>2. LauncherTyped'
  BY DEF RestoreMode, Go, pads, thread, IInv, TypeOK, LauncherTyped, Own, Resource
<1>3. PadsTyped'
  BY DEF RestoreMode, Go, pads, thread, IInv, TypeOK, PadsTyped
<1>4. ScreenKnown' /\ MouseKnown' /\ ContextKnown' /\ GpuKnown' /\ WheelsKnown'
  BY DEF RestoreMode, Go, pads, thread, IInv, TypeOK, LauncherTyped, Own, ScreenKnown,
       MouseKnown, ContextKnown, GpuKnown, WheelsKnown, Setup, Teardown
<1>5. MountsKnown' /\ EvmapyKnown' /\ PadsKnown'
  BY DEF RestoreMode, Go, pads, thread, IInv, TypeOK, LauncherTyped, Own, MountsKnown,
       EvmapyKnown, PadsKnown
<1> QED
  BY <1>1, <1>2, <1>3, <1>4, <1>5 DEF IInv, TypeOK

LEMMA StepHideMouse == ASSUME IInv, HideMouse PROVE IInv'
<1>1. StepTyped'
  BY DEF HideMouse, Go, pads, thread, IInv, TypeOK, StepTyped, Setup, Teardown
<1>2. LauncherTyped'
  BY DEF HideMouse, Go, pads, thread, IInv, TypeOK, LauncherTyped, Own
<1>3. PadsTyped'
  BY DEF HideMouse, Go, pads, thread, IInv, TypeOK, PadsTyped
<1>4. ScreenKnown' /\ MouseKnown' /\ ContextKnown' /\ GpuKnown' /\ WheelsKnown'
  BY DEF HideMouse, Go, pads, thread, IInv, TypeOK, LauncherTyped, Own, ScreenKnown,
       MouseKnown, ContextKnown, GpuKnown, WheelsKnown, Setup, Teardown
<1>5. MountsKnown' /\ EvmapyKnown' /\ PadsKnown'
  BY DEF HideMouse, Go, pads, thread, IInv, TypeOK, LauncherTyped, Own, MountsKnown,
       EvmapyKnown, PadsKnown
<1> QED
  BY <1>1, <1>2, <1>3, <1>4, <1>5 DEF IInv, TypeOK

LEMMA StepResetWheels == ASSUME IInv, ResetWheels PROVE IInv'
<1>1. StepTyped'
  BY DEF ResetWheels, Go, pads, thread, IInv, TypeOK, StepTyped, Setup, Teardown
<1>2. LauncherTyped'
  BY DEF ResetWheels, Go, pads, thread, IInv, TypeOK, LauncherTyped, Own
<1>3. PadsTyped'
  BY DEF ResetWheels, Go, pads, thread, IInv, TypeOK, PadsTyped
<1>4. ScreenKnown' /\ MouseKnown' /\ ContextKnown' /\ GpuKnown' /\ WheelsKnown'
  BY DEF ResetWheels, Go, pads, thread, IInv, TypeOK, LauncherTyped, Own, ScreenKnown,
       MouseKnown, ContextKnown, GpuKnown, WheelsKnown, Setup, Teardown
<1>5. MountsKnown' /\ EvmapyKnown' /\ PadsKnown'
  BY DEF ResetWheels, Go, pads, thread, IInv, TypeOK, LauncherTyped, Own, MountsKnown,
       EvmapyKnown, PadsKnown
<1> QED
  BY <1>1, <1>2, <1>3, <1>4, <1>5 DEF IInv, TypeOK

LEMMA StepUnmount == ASSUME IInv, Unmount PROVE IInv'
<1>1. StepTyped'
  BY DEF Unmount, Go, Raise, pads, thread, IInv, TypeOK, StepTyped, Setup, Teardown
<1>2. mounts' \in Mounts
  BY NoneAssumption DEF Unmount, Go, Raise, pads, thread, Squash, IInv, TypeOK,
       LauncherTyped, Mounts, MountsKnown
<1>3. own' \in Own /\ spoiled' \subseteq Resource
  BY DEF Unmount, Go, Raise, pads, thread, Squash, IInv, TypeOK, LauncherTyped, Own,
       Resource
<1>4. LauncherTyped'
  BY <1>2, <1>3 DEF Unmount, Go, Raise, pads, thread, Squash, IInv, TypeOK,
       LauncherTyped, Mounts
<1>5. PadsTyped'
  BY DEF Unmount, Go, Raise, pads, thread, Squash, IInv, TypeOK, PadsTyped
<1>6. ScreenKnown' /\ MouseKnown' /\ ContextKnown' /\ GpuKnown' /\ WheelsKnown'
  BY DEF Unmount, Go, Raise, pads, thread, Squash, IInv, ScreenKnown, MouseKnown,
       ContextKnown, GpuKnown, WheelsKnown, Setup, Teardown
<1>7. MountsKnown'
  BY NoneAssumption DEF Unmount, Go, Raise, pads, thread, Squash, IInv, TypeOK,
       LauncherTyped, Own, Mounts, MountsKnown
<1>8. EvmapyKnown' /\ PadsKnown'
  BY DEF Unmount, Go, Raise, pads, thread, Squash, IInv, TypeOK, LauncherTyped,
       PadsTyped, EvmapyKnown, PadsKnown
<1> QED
  BY <1>1, <1>4, <1>5, <1>6, <1>7, <1>8 DEF IInv, TypeOK

LEMMA StepExit == ASSUME IInv, Exit PROVE IInv'
<1>1. StepTyped'
  BY DEF Exit, system, pads, Ends, IInv, TypeOK, StepTyped, Setup, Teardown
<1>2. LauncherTyped'
  BY DEF Exit, system, pads, Ends, Fresh, IInv, TypeOK, LauncherTyped, Own
<1>3. PadsTyped'
  BY DEF Exit, system, pads, Ends, Fresh, IInv, TypeOK, PadsTyped
<1>4. ScreenKnown' /\ MouseKnown' /\ ContextKnown' /\ GpuKnown' /\ WheelsKnown'
  BY DEF Exit, system, pads, Ends, Fresh, IInv, TypeOK, LauncherTyped, Own, ScreenKnown,
       MouseKnown, ContextKnown, GpuKnown, WheelsKnown, Setup, Teardown
<1>5. MountsKnown'
  BY DEF Exit, system, pads, Ends, Fresh, IInv, TypeOK, LauncherTyped, MountsKnown
<1>6. EvmapyKnown' /\ PadsKnown'
  BY DEF Exit, system, pads, Ends, Fresh, IInv, TypeOK, LauncherTyped, PadsTyped, Own,
       EvmapyKnown, PadsKnown
<1> QED
  BY <1>1, <1>2, <1>3, <1>4, <1>5, <1>6 DEF IInv, TypeOK

LEMMA StepKillOrphans == ASSUME IInv, KillOrphans PROVE IInv'
<1>1. StepTyped' /\ LauncherTyped'
  BY DEF KillOrphans, system, pads, thread, IInv, TypeOK, StepTyped, LauncherTyped
<1>2. PadsTyped'
  BY DEF KillOrphans, pads, thread, IInv, TypeOK, PadsTyped
<1>3. ScreenKnown' /\ MouseKnown' /\ ContextKnown' /\ GpuKnown' /\ WheelsKnown'
  BY DEF KillOrphans, system, IInv, ScreenKnown, MouseKnown, ContextKnown, GpuKnown,
       WheelsKnown
<1>4. MountsKnown' /\ EvmapyKnown' /\ PadsKnown'
  BY DEF KillOrphans, system, pads, thread, IInv, MountsKnown, EvmapyKnown, PadsKnown
<1> QED
  BY <1>1, <1>2, <1>3, <1>4 DEF IInv, TypeOK

LEMMA StepKill == ASSUME IInv, Kill PROVE IInv'
<1>1. StepTyped'
  BY DEF Kill, pads, Ends, IInv, TypeOK, StepTyped, Setup, Teardown
<1>2. LauncherTyped'
  BY NoneAssumption DEF Kill, pads, Ends, Squash, Fresh, IInv, TypeOK, LauncherTyped,
       Own, Mounts, MountsKnown, InUse, Resource
<1>3. PadsTyped'
  BY DEF Kill, pads, Ends, Squash, Fresh, IInv, TypeOK, PadsTyped, Running, Stopped
<1>4. ScreenKnown' /\ MouseKnown' /\ ContextKnown' /\ GpuKnown' /\ WheelsKnown'
  BY DEF Kill, pads, Ends, Squash, Fresh, IInv, TypeOK, LauncherTyped, Own, ScreenKnown,
       MouseKnown, ContextKnown, GpuKnown, WheelsKnown, InUse, Setup, Teardown, Resource
<1>5. MountsKnown'
  BY NoneAssumption DEF Kill, pads, Ends, Squash, Fresh, IInv, TypeOK, LauncherTyped,
       Own, Mounts, MountsKnown, InUse, Resource
<1>6. EvmapyKnown' /\ PadsKnown'
  BY DEF Kill, pads, Ends, Squash, Fresh, IInv, TypeOK, LauncherTyped, PadsTyped, Own,
       EvmapyKnown, PadsKnown, InUse, Resource
<1> QED
  BY <1>1, <1>2, <1>3, <1>4, <1>5, <1>6 DEF IInv, TypeOK

-----------------------------------------------------------------------------
(* The monitor and the pads.                                               *)

LEMMA StepScan == ASSUME IInv, Scan PROVE IInv'
<1>1. StepTyped'
  BY DEF Scan, system, pads, IInv, TypeOK, StepTyped, Setup, Teardown
<1>2. LauncherTyped'
  BY DEF Scan, system, pads, IInv, TypeOK, LauncherTyped
<1>3. PadsTyped'
  BY DEF Scan, system, pads, IInv, TypeOK, PadsTyped
<1>4. ScreenKnown' /\ MouseKnown' /\ ContextKnown' /\ GpuKnown' /\ WheelsKnown'
  BY DEF Scan, system, pads, IInv, ScreenKnown, MouseKnown, ContextKnown, GpuKnown,
       WheelsKnown
<1>5. MountsKnown' /\ EvmapyKnown' /\ PadsKnown'
  BY DEF Scan, system, pads, IInv, TypeOK, PadsTyped, MountsKnown, EvmapyKnown,
       PadsKnown, Current
<1> QED
  BY <1>1, <1>2, <1>3, <1>4, <1>5 DEF IInv, TypeOK

LEMMA StepStopEvmapy == ASSUME IInv, StopEvmapy PROVE IInv'
<1>1. StepTyped'
  BY DEF StopEvmapy, system, pads, IInv, TypeOK, StepTyped, Setup, Teardown
<1>2. LauncherTyped'
  BY DEF StopEvmapy, system, pads, IInv, TypeOK, LauncherTyped
<1>3. PadsTyped'
  BY DEF StopEvmapy, system, pads, IInv, TypeOK, PadsTyped, Running, Stopped
<1>4. ScreenKnown' /\ MouseKnown' /\ ContextKnown' /\ GpuKnown' /\ WheelsKnown'
  BY DEF StopEvmapy, system, pads, IInv, ScreenKnown, MouseKnown, ContextKnown,
       GpuKnown, WheelsKnown
<1>5. MountsKnown' /\ EvmapyKnown' /\ PadsKnown'
  BY DEF StopEvmapy, system, pads, IInv, TypeOK, PadsTyped, MountsKnown, EvmapyKnown,
       PadsKnown
<1> QED
  BY <1>1, <1>2, <1>3, <1>4, <1>5 DEF IInv, TypeOK

LEMMA StepPrepare == ASSUME IInv, Prepare PROVE IInv'
<1>1. StepTyped'
  BY DEF Prepare, system, pads, IInv, TypeOK, StepTyped, Setup, Teardown
<1>2. LauncherTyped'
  BY DEF Prepare, system, pads, IInv, TypeOK, LauncherTyped
<1>3. PadsTyped'
  BY DEF Prepare, system, pads, IInv, TypeOK, PadsTyped, There
<1>4. ScreenKnown' /\ MouseKnown' /\ ContextKnown' /\ GpuKnown' /\ WheelsKnown'
  BY DEF Prepare, system, pads, IInv, ScreenKnown, MouseKnown, ContextKnown, GpuKnown,
       WheelsKnown
<1>5. MountsKnown' /\ EvmapyKnown' /\ PadsKnown'
  BY DEF Prepare, system, pads, IInv, MountsKnown, EvmapyKnown, PadsKnown
<1> QED
  BY <1>1, <1>2, <1>3, <1>4, <1>5 DEF IInv, TypeOK

LEMMA StepStartEvmapy == ASSUME IInv, StartEvmapy PROVE IInv'
<1>1. StepTyped'
  BY DEF StartEvmapy, system, pads, IInv, TypeOK, StepTyped, Setup, Teardown
<1>2. LauncherTyped'
  BY DEF StartEvmapy, system, pads, IInv, TypeOK, LauncherTyped
<1>3. PadsTyped'
  BY DEF StartEvmapy, system, pads, IInv, TypeOK, PadsTyped, Running, Stopped
<1>4. ScreenKnown' /\ MouseKnown' /\ ContextKnown' /\ GpuKnown' /\ WheelsKnown'
  BY DEF StartEvmapy, system, pads, IInv, ScreenKnown, MouseKnown, ContextKnown,
       GpuKnown, WheelsKnown
<1>5. MountsKnown' /\ EvmapyKnown' /\ PadsKnown'
  BY DEF StartEvmapy, system, pads, IInv, TypeOK, PadsTyped, MountsKnown, EvmapyKnown,
       PadsKnown
<1> QED
  BY <1>1, <1>2, <1>3, <1>4, <1>5 DEF IInv, TypeOK

LEMMA StepChange == ASSUME IInv, NEW p \in Player, Unplug(p) \/ Plug(p) PROVE IInv'
<1>1. StepTyped'
  BY DEF Unplug, Plug, Change, system, IInv, TypeOK, StepTyped, Setup, Teardown
<1>2. LauncherTyped'
  BY DEF Unplug, Plug, Change, system, IInv, TypeOK, LauncherTyped
<1>3. PadsTyped'
  BY LauncherAssumption DEF Unplug, Plug, Change, system, IInv, TypeOK, PadsTyped, There
<1>4. ScreenKnown' /\ MouseKnown' /\ ContextKnown' /\ GpuKnown' /\ WheelsKnown'
  BY DEF Unplug, Plug, Change, system, IInv, ScreenKnown, MouseKnown, ContextKnown,
       GpuKnown, WheelsKnown
<1>5. MountsKnown' /\ EvmapyKnown' /\ PadsKnown'
  BY DEF Unplug, Plug, Change, system, IInv, TypeOK, PadsTyped, MountsKnown,
       EvmapyKnown, PadsKnown
<1> QED
  BY <1>1, <1>2, <1>3, <1>4, <1>5 DEF IInv, TypeOK

-----------------------------------------------------------------------------
(* All of them.                                                            *)

LEMMA Preserved == IInv /\ [Next]_vars => IInv'
<1> SUFFICES ASSUME IInv, [Next]_vars PROVE IInv'
  OBVIOUS
<1>1. CASE SetUp
  BY <1>1, StepMount, StepLoad, StepConfigureWheels, StepLowerMode, StepSetMode,
       StepShowMouse, StepEnterEvmapy, StepEnterContext, StepGenerate, StepBoost,
       StepRunCommand, StepGameEnds DEF SetUp
<1>2. CASE PutBack
  BY <1>2, StepUnboost, StepDefaultContext, StepExitEvmapy, StepStopHooks,
       StepRestoreMode, StepHideMouse, StepResetWheels, StepUnmount, StepExit DEF PutBack
<1>3. CASE Kill \/ KillOrphans
  BY <1>3, StepKill, StepKillOrphans
<1>4. CASE Monitor
  BY <1>4, StepScan, StepStopEvmapy, StepPrepare, StepStartEvmapy DEF Monitor
<1>5. CASE \E g \in Game : Launch(g)
  BY <1>5, StepLaunch
<1>6. CASE \E p \in Player : Unplug(p) \/ Plug(p)
  BY <1>6, StepChange
<1>7. CASE UNCHANGED vars
  <2>1. TypeOK'
    BY <1>7 DEF vars, system, pads, thread, IInv, TypeOK, StepTyped, LauncherTyped, PadsTyped
  <2>2. ScreenKnown' /\ MouseKnown' /\ ContextKnown' /\ GpuKnown' /\ WheelsKnown'
    BY <1>7 DEF vars, system, pads, thread, IInv, ScreenKnown, MouseKnown, ContextKnown, GpuKnown,
                WheelsKnown
  <2>3. MountsKnown' /\ EvmapyKnown' /\ PadsKnown'
    BY <1>7 DEF vars, system, pads, thread, IInv, MountsKnown, EvmapyKnown, PadsKnown
  <2> QED
    BY <2>1, <2>2, <2>3 DEF IInv
<1> QED
  BY <1>1, <1>2, <1>3, <1>4, <1>5, <1>6, <1>7 DEF Next

-----------------------------------------------------------------------------

\* Of each resource a launcher has changed, the launcher knows or "spoiled" does.
THEOREM Invariance == Spec => []IInv
<1>1. Init /\ [][Next]_vars => []IInv
  BY InitIInv, Preserved, PTL
<1> QED
  BY <1>1, PTL DEF Spec

\* EmulationStation gets back its mode, its pointer, its hotkeys, the clocks, the wheels and a free
\* directory, but for what a kill or a failed command has spoiled.
THEOREM Restoring == Spec => []Restored
<1>1. IInv => Restored
  BY DEF IInv, Restored, ScreenKnown, MouseKnown, ContextKnown, GpuKnown, WheelsKnown, MountsKnown,
         Setup, Teardown
<1> QED
  BY <1>1, Invariance, PTL

\* The game that runs is the one asked for, unless a mount was left behind.
THEOREM Asked == Spec => []RightRom
<1>1. IInv => RightRom
  BY DEF IInv, MountsKnown, RightRom
<1> QED
  BY <1>1, Invariance, PTL

\* What the last launch that started evmapy leaves is no evmapy, however it ended and whatever
\* earlier ones left, unless it was killed or its monitor thread starts one late.
THEOREM Leaving == Spec => []EvmapyStopped
<1>1. IInv => EvmapyStopped
  BY DEF IInv, EvmapyKnown, EvmapyStopped
<1> QED
  BY <1>1, Invariance, PTL

\* Once the monitor has read the events there are, evmapy reads no pad that is gone.
THEOREM Following == Spec => []UnpluggedUnmapped
<1>1. IInv => UnpluggedUnmapped
  BY DEF IInv, PadsKnown, Quiet, UnpluggedUnmapped
<1> QED
  BY <1>1, Invariance, PTL
==============================================================================
