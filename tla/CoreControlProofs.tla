------------------------- MODULE CoreControlProofs -------------------------
(***************************************************************************)
(* Proofs about CoreControl, for any set of controllers and any bound on   *)
(* the commands posted.                                                    *)
(***************************************************************************)
EXTENDS CoreControl, TLAPS

LEMMA TypeInit == Init => TypeOK
<1> SUFFICES ASSUME Init
             PROVE  TypeOK
  OBVIOUS
<1>1. command \in Orders \cup {"none"} /\ response \in {Ack[order] : order \in Orders} \cup {"none"}
  BY DEF Init
<1>2. /\ pc \in [Controllers -> PlacesControl]
      /\ waited \in [Controllers -> Elapsed]
      /\ holds \in [Controllers -> BOOLEAN]
  BY DEF Init, Elapsed, PlacesControl
<1>3. /\ status \in {"READY", "RESERVED", "RUNNING"} /\ idleStatus \in {"READY", "RESERVED"}
      /\ apc \in PlacesCore /\ panics \in 0 .. 2 /\ posts \in 0 .. MaxPosts
  BY MaxPostsAssumption DEF Init, PlacesCore
<1>4. present \in BOOLEAN /\ ipi \in BOOLEAN
  BY DEF Init
<1> QED BY <1>1, <1>2, <1>3, <1>4 DEF TypeOK

LEMMA TypeController ==
  ASSUME TypeOK, NEW c \in Controllers, Controller(c)
  PROVE  TypeOK'
<1> USE MaxPostsAssumption DEF TypeOK, Orders, Elapsed, Late, PlacesCore, PlacesControl, Post,
        coreVars, Ack
<1>1. CASE FindFree(c)      BY <1>1 DEF FindFree
<1>2. CASE Reserve(c)       BY <1>2 DEF Reserve
<1>3. CASE Reserved(c)      BY <1>3 DEF Reserved
<1>4. CASE Unreserve(c)     BY <1>4 DEF Unreserve
<1>5. CASE Unreserved(c)    BY <1>5 DEF Unreserved
<1>6. CASE Stop(c)          BY <1>6 DEF Stop
<1>7. CASE Tick(c)          BY <1>7 DEF Tick
<1>8. CASE StopWaitEnds(c)  BY <1>8 DEF StopWaitEnds
<1>9. CASE StopChecked(c)   BY <1>9 DEF StopChecked
<1>10. CASE FreeStacks(c)   BY <1>10 DEF FreeStacks
<1>11. CASE Park(c)         BY <1>11 DEF Park
<1>12. CASE Remove(c)       BY <1>12 DEF Remove
<1>13. CASE InitIpi(c)      BY <1>13 DEF InitIpi
<1>14. CASE Revive(c)       BY <1>14 DEF Revive
<1>15. CASE StartupIpi(c)   BY <1>15 DEF StartupIpi
<1>16. CASE CheckIn(c)      BY <1>16 DEF CheckIn
<1> QED BY <1>1, <1>2, <1>3, <1>4, <1>5, <1>6, <1>7, <1>8, <1>9, <1>10, <1>11, <1>12, <1>13,
           <1>14, <1>15, <1>16 DEF Controller, Answered, Carry

LEMMA TypeCore ==
  ASSUME TypeOK, Core
  PROVE  TypeOK'
<1> USE MaxPostsAssumption DEF TypeOK, Orders, PlacesCore, Ack
<1>1. CASE Boot             BY <1>1 DEF Boot
<1>2. CASE Obey             BY <1>2 DEF Obey
<1>3. CASE BeginTask        BY <1>3 DEF BeginTask
<1>4. CASE Idle             BY <1>4 DEF Idle
<1>5. CASE WokenByIpi \/ WokenByTimer BY <1>5 DEF WokenByIpi, WokenByTimer, Awake
<1>6. CASE AckInTask        BY <1>6 DEF AckInTask, coreVars
<1>7. CASE EndTask          BY <1>7 DEF EndTask
<1>8. CASE Fault            BY <1>8 DEF Fault
<1>9. CASE GiveUp           BY <1>9 DEF GiveUp
<1> QED BY <1>1, <1>2, <1>3, <1>4, <1>5, <1>6, <1>7, <1>8, <1>9 DEF Core

(***************************************************************************)
(* Type correctness.  In particular panic_depth of the core never exceeds  *)
(* the depth at which the machine reboots.                                 *)
(***************************************************************************)
THEOREM TypeCorrect == Safety => []TypeOK
<1>1. TypeOK /\ [Next]_vars => TypeOK'
  <2> SUFFICES ASSUME TypeOK, [Next]_vars
               PROVE  TypeOK'
    OBVIOUS
  <2>1. CASE UNCHANGED vars
    BY <2>1 DEF TypeOK, vars, coreVars
  <2>2. CASE Next
    BY <2>2, TypeController, TypeCore DEF Next
  <2> QED BY <2>1, <2>2
<1> QED BY <1>1, TypeInit, PTL DEF Safety
----------------------------------------------------------------------------
(***************************************************************************)
(* The answer in the mailbox is to the command in the mailbox, with any    *)
(* number of controllers: a command is posted together with an empty       *)
(* answer, and answered by the core alone, under command_lock.             *)
(***************************************************************************)
THEOREM AnswersMatch == Safety => []AckMatches
<1>1. Init => AckMatches
  BY DEF Init, AckMatches
<1>2. TypeOK /\ AckMatches /\ [Next]_vars => AckMatches'
  <2> SUFFICES ASSUME TypeOK, AckMatches, [Next]_vars
               PROVE  AckMatches'
    OBVIOUS
  <2> USE DEF AckMatches, Ack
  <2>1. CASE UNCHANGED vars
    BY <2>1 DEF vars, coreVars
  <2>2. ASSUME NEW c \in Controllers, Controller(c)
        PROVE  AckMatches'
    BY <2>2 DEF Controller, Answered, Carry, Post, FindFree, Reserve, Reserved, Unreserve,
       Unreserved, Stop, Tick, StopWaitEnds, StopChecked, FreeStacks, Park, Remove, InitIpi,
       Revive, StartupIpi, CheckIn
  <2>3. CASE Obey
    BY <2>3 DEF Obey
  <2>4. CASE Core /\ ~Obey
    BY <2>4 DEF Core, Boot, BeginTask, Idle, WokenByIpi, WokenByTimer, Awake, AckInTask,
       EndTask, Fault, GiveUp
  <2> QED BY <2>1, <2>2, <2>3, <2>4 DEF Next
<1> QED BY <1>1, <1>2, TypeCorrect, PTL DEF Safety
----------------------------------------------------------------------------
(***************************************************************************)
(* The rest is about a core that one processor commands, as in the kernel. *)
(***************************************************************************)
OneController == \A c, d \in Controllers : c = d

Stopping == {"shutdown", "reset", "check_shutdown", "check_reset"}
Stopped  == {"halted", "off"}

(***************************************************************************)
(* Where the core is once it has answered a SHUTDOWN, and where it is in   *)
(* each phase of a teardown.                                               *)
(***************************************************************************)
AnsweredIsStopped == command = "SHUTDOWN" /\ response # "none" => apc \in Stopped

StopInv(c) ==
  /\ pc[c] \in Stopping => command = "SHUTDOWN"
  /\ pc[c] \in {"check_shutdown", "check_reset"} /\ waited[c] = 0 => response # "none"
  /\ pc[c] \in {"free", "park", "init"} => apc \in Stopped
  /\ pc[c] \in {"remove", "revive", "sipi"} => apc = "off"
  /\ pc[c] = "sipi" => command = "none"

TeardownInv == AnsweredIsStopped /\ \A c \in Controllers : StopInv(c)

(***************************************************************************)
(* What the status is worth: RUNNING while the core is in its loop or in a *)
(* task, what idle_status says while it idles.                             *)
(***************************************************************************)
StatusInv ==
  /\ apc \in {"top", "look", "task", "self", "halted", "reboot"} => status = "RUNNING"
  /\ apc = "hlt" => status = idleStatus

ReserveInv(c) ==
  /\ ~present => pc[c] = "out" /\ ~holds[c]
  /\ apc = "off" => ~present \/ pc[c] \in {"remove", "revive", "sipi"}
  /\ pc[c] \in {"sipi", "checkin", "found", "unreserve"} => ~holds[c]
  /\ pc[c] = "reserve" => command \in {"RESERVE", "SHUTDOWN"} /\ ~holds[c]
  /\ holds[c] => command \in {"RESERVE", "SHUTDOWN"} /\ status # "READY"
  /\ holds[c] \/ (pc[c] = "reserve" /\ response # "none") =>
       apc \in Stopped \/ (apc # "boot" /\ idleStatus = "RESERVED")

ReservationInv == StatusInv /\ \A c \in Controllers : ReserveInv(c)

LEMMA TeardownController ==
  ASSUME OneController, TypeOK, AckMatches, TeardownInv, NEW c \in Controllers, Controller(c)
  PROVE  TeardownInv'
<1> USE DEF OneController, TypeOK, TeardownInv, AnsweredIsStopped, StopInv, Stopping, Stopped,
        coreVars, Elapsed
<1>1. CASE FindFree(c)      BY <1>1 DEF FindFree
<1>2. CASE Reserve(c)       BY <1>2 DEF Reserve, Post
<1>3. CASE Reserved(c)      BY <1>3 DEF Reserved
<1>4. CASE Unreserve(c)     BY <1>4 DEF Unreserve, Post
<1>5. CASE Unreserved(c)    BY <1>5 DEF Unreserved
<1>6. CASE Stop(c)          BY <1>6 DEF Stop, Post
<1>7. CASE Tick(c)          BY <1>7 DEF Tick, Late
<1>8. CASE StopWaitEnds(c)  BY <1>8 DEF StopWaitEnds, Late
<1>9. CASE StopChecked(c)   BY <1>9 DEF StopChecked
<1>10. CASE FreeStacks(c)   BY <1>10 DEF FreeStacks
<1>11. CASE Park(c)         BY <1>11 DEF Park
<1>12. CASE Remove(c)       BY <1>12 DEF Remove
<1>13. CASE InitIpi(c)      BY <1>13 DEF InitIpi
<1>14. CASE Revive(c)       BY <1>14 DEF Revive
<1>15. CASE StartupIpi(c)   BY <1>15 DEF StartupIpi
<1>16. CASE CheckIn(c)      BY <1>16 DEF CheckIn
<1> QED BY <1>1, <1>2, <1>3, <1>4, <1>5, <1>6, <1>7, <1>8, <1>9, <1>10, <1>11, <1>12,
           <1>13, <1>14, <1>15, <1>16 DEF Controller, Answered, Carry

LEMMA TeardownCore ==
  ASSUME TypeOK, AckMatches, TeardownInv, Core
  PROVE  TeardownInv'
<1> USE DEF TypeOK, TeardownInv, AnsweredIsStopped, StopInv, Stopping, Stopped, Orders, Ack
<1>1. CASE Boot             BY <1>1 DEF Boot
<1>2. CASE Obey             BY <1>2 DEF Obey
<1>3. CASE BeginTask        BY <1>3 DEF BeginTask
<1>4. CASE Idle             BY <1>4 DEF Idle
<1>5. CASE WokenByIpi \/ WokenByTimer  BY <1>5 DEF WokenByIpi, WokenByTimer, Awake
<1>6. CASE AckInTask        BY <1>6 DEF AckInTask, coreVars
<1>7. CASE EndTask          BY <1>7 DEF EndTask
<1>8. CASE Fault            BY <1>8 DEF Fault
<1>9. CASE GiveUp           BY <1>9 DEF GiveUp
<1> QED BY <1>1, <1>2, <1>3, <1>4, <1>5, <1>6, <1>7, <1>8, <1>9 DEF Core

LEMMA ReservationController ==
  ASSUME OneController, TypeOK, AckMatches, TeardownInv, ReservationInv,
         NEW c \in Controllers, Controller(c)
  PROVE  ReservationInv'
<1> USE DEF OneController, TypeOK, TeardownInv, AnsweredIsStopped, StopInv, Stopped, Stopping,
        ReservationInv, StatusInv, ReserveInv, coreVars
<1>1. CASE FindFree(c)      BY <1>1 DEF FindFree
<1>2. CASE Reserve(c)       BY <1>2 DEF Reserve, Post
<1>3. CASE Reserved(c)
  <2>1. present /\ pc[c] = "reserve" /\ response # "none"
    BY <1>3 DEF Reserved
  <2>2. status # "READY"
    BY <2>1 DEF PlacesCore
  <2> QED BY <1>3, <2>1, <2>2 DEF Reserved
<1>4. CASE Unreserve(c)     BY <1>4 DEF Unreserve, Post
<1>5. CASE Unreserved(c)    BY <1>5 DEF Unreserved
<1>6. CASE Stop(c)          BY <1>6 DEF Stop, Post
<1>7. CASE Tick(c)          BY <1>7 DEF Tick, Late
<1>8. CASE StopWaitEnds(c)  BY <1>8 DEF StopWaitEnds
<1>9. CASE StopChecked(c)   BY <1>9 DEF StopChecked
<1>10. CASE FreeStacks(c)   BY <1>10 DEF FreeStacks
<1>11. CASE Park(c)         BY <1>11 DEF Park
<1>12. CASE Remove(c)       BY <1>12 DEF Remove
<1>13. CASE InitIpi(c)      BY <1>13 DEF InitIpi
<1>14. CASE Revive(c)       BY <1>14 DEF Revive
<1>15. CASE StartupIpi(c)   BY <1>15 DEF StartupIpi
<1>16. CASE CheckIn(c)      BY <1>16 DEF CheckIn
<1> QED BY <1>1, <1>2, <1>3, <1>4, <1>5, <1>6, <1>7, <1>8, <1>9, <1>10, <1>11, <1>12,
           <1>13, <1>14, <1>15, <1>16 DEF Controller, Answered, Carry

LEMMA ReservationCore ==
  ASSUME TypeOK, AckMatches, TeardownInv, ReservationInv, Core, apc # "reboot"
  PROVE  ReservationInv'
<1> USE DEF TypeOK, TeardownInv, AnsweredIsStopped, StopInv, Stopped, ReservationInv, StatusInv,
        ReserveInv, Orders, Ack
<1>1. CASE Boot             BY <1>1 DEF Boot
<1>2. CASE Obey             BY <1>2 DEF Obey
<1>3. CASE BeginTask        BY <1>3 DEF BeginTask
<1>4. CASE Idle             BY <1>4 DEF Idle
<1>5. CASE WokenByIpi \/ WokenByTimer  BY <1>5 DEF WokenByIpi, WokenByTimer, Awake
<1>6. CASE AckInTask        BY <1>6 DEF AckInTask, coreVars
<1>7. CASE EndTask          BY <1>7 DEF EndTask
<1>8. CASE Fault            BY <1>8 DEF Fault
<1>9. CASE GiveUp           BY <1>9 DEF GiveUp
<1> QED BY <1>1, <1>2, <1>3, <1>4, <1>5, <1>6, <1>7, <1>8, <1>9 DEF Core

LEMMA OneControllerInvariant ==
  OneController => (Safety => [](TypeOK /\ AckMatches /\ TeardownInv /\ ReservationInv))
<1> SUFFICES ASSUME OneController
             PROVE  Safety => [](TypeOK /\ AckMatches /\ TeardownInv /\ ReservationInv)
  OBVIOUS
<1>1. Init => TeardownInv /\ ReservationInv
  BY DEF Init, TeardownInv, AnsweredIsStopped, StopInv, Stopping, ReservationInv, StatusInv,
     ReserveInv
<1>2. TypeOK /\ AckMatches /\ TeardownInv /\ ReservationInv /\ [Next]_vars
        => TeardownInv' /\ ReservationInv'
  <2> SUFFICES ASSUME TypeOK, AckMatches, TeardownInv, ReservationInv, [Next]_vars
               PROVE  TeardownInv' /\ ReservationInv'
    OBVIOUS
  <2>1. CASE UNCHANGED vars
    BY <2>1 DEF vars, coreVars, TeardownInv, AnsweredIsStopped, StopInv, Stopping, Stopped,
       ReservationInv, StatusInv, ReserveInv
  <2>2. CASE Next
    BY <2>2, TeardownController, TeardownCore, ReservationController, ReservationCore DEF Next
  <2> QED BY <2>1, <2>2
<1> QED BY <1>1, <1>2, TypeCorrect, AnswersMatch, PTL DEF Safety

(***************************************************************************)
(* Nothing of a core is freed, and no INIT sent, while it runs.            *)
(***************************************************************************)
THEOREM FreedWhenStopped == OneController => (Safety => []StoppedBeforeFreed)
<1> SUFFICES ASSUME OneController
             PROVE  Safety => []StoppedBeforeFreed
  OBVIOUS
<1>1. TeardownInv => StoppedBeforeFreed
  BY DEF TeardownInv, StopInv, Stopped, StoppedBeforeFreed
<1> QED BY <1>1, OneControllerInvariant, PTL

(***************************************************************************)
(* A core that was reserved is not found free by anybody.                  *)
(***************************************************************************)
THEOREM ReservedNotFree == OneController => (Safety => []ReservationVisible)
<1> SUFFICES ASSUME OneController
             PROVE  Safety => []ReservationVisible
  OBVIOUS
<1>1. ReservationInv => ReservationVisible
  BY DEF ReservationInv, ReserveInv, ReservationVisible
<1> QED BY <1>1, OneControllerInvariant, PTL
============================================================================
