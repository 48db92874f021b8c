--------------------------- MODULE DxlControlProofs ---------------------------
(***************************************************************************)
(* What TLAPS proves of DxlControl: for any set of servos, any CONFIGs and *)
(* frames, any number of attempts, any queue and any number of outstanding *)
(* INITs.                                                                  *)
(***************************************************************************)
EXTENDS DxlControl, FiniteSetTheorems, SequenceTheorems, TLAPS

-----------------------------------------------------------------------------
(* Operators *)

\* A loop that is not over has a servo to visit.
LEMMA PickIn == ASSUME NEW S, S # {} PROVE Pick(S) \in S
BY DEF Pick

\* One attempt at a register write, whatever its outcome, touches servos only
\* and stays within the attempts the code allows.
LEMMA WriteType ==
  ASSUME TypeOK, NEW t \in Tasks, NEW reg, NEW s \in Servos, NEW value, NEW result,
         reg = "velocity" => value \in Velocities \cup {Factory},
         dynamixel_apply_register(t, reg, s, value, result)
  PROVE  /\ torque' \subseteq Servos
         /\ velocity' \in Profile
         /\ led' \subseteq Servos
         /\ att' \in [Tasks -> 1..Attempts]
<1> USE DEF TypeOK, LocalsType, MapType, ServosType
<1>1. /\ torque' \subseteq Servos
      /\ velocity' \in Profile
      /\ led' \subseteq Servos
  <2>1. CASE UNCHANGED regs
    BY <2>1 DEF regs
  <2>2. CASE WriteRegister(reg, s, value)
    BY <2>2 DEF WriteRegister, Put, Profile
  <2> QED BY <2>1, <2>2 DEF dynamixel_apply_register
<1>2. result = "retry" => att[t] < Attempts
  BY DEF dynamixel_apply_register
<1>3. att' \in [Tasks -> 1..Attempts]
  BY <1>2, BoundsAssumption DEF dynamixel_apply_register
<1> QED BY <1>1, <1>3

-----------------------------------------------------------------------------
(* Type correctness *)

\* A task inside a loop still has servos to visit.
LoopsHaveWork ==
  \A t \in Tasks :
    pc[t] \in {"torque", "led", "velocity", "token_led", "reinit_led"} => todo[t] # {}

Typed == TypeOK /\ LoopsHaveWork

LEMMA TypedInit == Init => Typed
<1> SUFFICES ASSUME Init PROVE Typed
  OBVIOUS
<1>1. None \in Payload
  BY DEF None, Payload
<1>2. 1 \in 1..Attempts /\ 0 \in 0..MaxInits
  BY BoundsAssumption
<1>3. inbox \in Seq(Message)
  BY DEF Init
<1>6. Unset \in Profile
  BY DEF Unset, Profile
<1>4. TypeOK
  BY <1>1, <1>2, <1>3, <1>6 DEF Init, TypeOK, FlagsType, MapType, LocalsType, HostType,
     ServosType, Tasks, InboundPCs, DxlPCs
<1>5. LoopsHaveWork
  BY DEF Init, LoopsHaveWork, Tasks
<1> QED BY <1>4, <1>5 DEF Typed

\* The loops both tasks run: torque, velocity, light
LEMMA TypedLoops ==
  ASSUME Typed, NEW t \in Tasks,
         TorqueBegin(t) \/ TorqueWrite(t) \/ TorqueDone(t) \/ VelocityWrite(t) \/ StatusLight(t)
  PROVE  Typed'
<1> USE DEF Typed, TypeOK, FlagsType, MapType, LocalsType, HostType, ServosType, LoopsHaveWork, Tasks, InboundPCs, DxlPCs, Goto,
            flags, map, locals, host, supply, regs
<1>1. CASE TorqueBegin(t)
  BY <1>1 DEF TorqueBegin
<1>2. CASE TorqueWrite(t)
  <2> DEFINE s == Pick(todo[t])
  <2>1. s \in todo[t] /\ s \in Servos
    BY <1>2, PickIn DEF TorqueWrite
  <2>2. PICK result \in Results :
          /\ dynamixel_apply_register(t, "torque", s, val[t] /\ s \in snap[t], result)
          /\ Advance(t, s, result)
          /\ Goto(t, IF result # "retry" /\ todo[t] = {s} THEN "torque_done" ELSE "torque")
    BY <1>2 DEF TorqueWrite
  <2>3. /\ torque' \subseteq Servos /\ velocity' \in Profile /\ led' \subseteq Servos
        /\ att' \in [Tasks -> 1..Attempts]
    BY <2>1, <2>2, WriteType
  <2>4. /\ todo' \in [Tasks -> SUBSET Servos]
        /\ \A u \in Tasks \ {t} : todo'[u] = todo[u]
        /\ todo'[t] = IF result = "retry" THEN todo[t] ELSE todo[t] \ {s}
    BY <2>2 DEF Advance
  <2>5. TypeOK'
    BY <1>2, <2>2, <2>3, <2>4 DEF TorqueWrite
  <2>6. ASSUME todo'[t] = {} PROVE pc'[t] = "torque_done"
    <3>1. result # "retry"
      BY <2>1, <2>4, <2>6
    <3>2. todo[t] = {s}
      BY <2>1, <2>4, <2>6, <3>1
    <3> QED BY <2>2, <3>1, <3>2
  <2>7. \A u \in Tasks \ {t} : pc'[u] = pc[u]
    BY <2>2
  <2>8. LoopsHaveWork'
    BY <2>4, <2>6, <2>7
  <2> QED BY <2>5, <2>8
<1>3. CASE TorqueDone(t)
  BY <1>3 DEF TorqueDone
<1>4. CASE VelocityWrite(t)
  <2> DEFINE s == Pick(todo[t])
  <2>1. s \in Servos
    BY <1>4, PickIn DEF VelocityWrite
  <2>2. PICK result \in Results :
          /\ dynamixel_apply_register(t, "velocity", s, Wanted(t, s), result)
          /\ IF result = "retry"
               THEN UNCHANGED <<confirmed, val, pc>>
               ELSE /\ dynamixel_mark_velocity_confirmed(s, result = "ok")
                    /\ val' = [val EXCEPT ![t] = result = "ok"]
                    /\ Goto(t, IF t = "inbound" THEN "token_led" ELSE "reinit_led")
    BY <1>4 DEF VelocityWrite
  <2>3. /\ torque' \subseteq Servos /\ velocity' \in Profile /\ led' \subseteq Servos
        /\ att' \in [Tasks -> 1..Attempts]
    <3>1. Wanted(t, s) \in Velocities \cup {Factory}
      BY <2>1 DEF Wanted, Profile
    <3> QED BY <2>1, <2>2, <3>1, WriteType
  <2>4. confirmed' \subseteq motors
    BY <2>2 DEF dynamixel_mark_velocity_confirmed, Put
  <2>5. TypeOK'
    <3>1. CASE result = "retry"
      BY <1>4, <2>2, <2>3, <3>1 DEF VelocityWrite
    <3>2. CASE result # "retry"
      <4>1. pc' = [pc EXCEPT ![t] = IF t = "inbound" THEN "token_led" ELSE "reinit_led"]
        BY <2>2, <3>2
      <4>2. \E b \in BOOLEAN : val' = [val EXCEPT ![t] = b]
        BY <2>2, <3>2
      <4> QED BY <1>4, <2>3, <2>4, <4>1, <4>2 DEF VelocityWrite
    <3> QED BY <3>1, <3>2
  <2>6. LoopsHaveWork'
    BY <1>4, <2>2 DEF VelocityWrite
  <2> QED BY <2>5, <2>6
<1>5. CASE StatusLight(t)
  <2> DEFINE s == Pick(todo[t])
  <2>1. s \in todo[t] /\ s \in Servos
    BY <1>5, PickIn DEF StatusLight
  <2>2. PICK result \in Results :
          /\ dynamixel_apply_register(t, "led", s, val[t], result)
          /\ Advance(t, s, result)
          /\ IF result = "retry"
               THEN UNCHANGED <<val, pc>>
               ELSE /\ val' = [val EXCEPT ![t] = FALSE]
                    /\ Goto(t, IF t = "inbound" THEN "token"
                               ELSE IF todo[t] = {s} THEN "reinit_check" ELSE "velocity")
    BY <1>5 DEF StatusLight
  <2>3. /\ torque' \subseteq Servos /\ velocity' \in Profile /\ led' \subseteq Servos
        /\ att' \in [Tasks -> 1..Attempts]
    BY <2>1, <2>2, WriteType
  <2>4. /\ todo' \in [Tasks -> SUBSET Servos]
        /\ \A u \in Tasks \ {t} : todo'[u] = todo[u]
        /\ todo'[t] = IF result = "retry" THEN todo[t] ELSE todo[t] \ {s}
    BY <2>2 DEF Advance
  <2>5. TypeOK'
    <3>1. CASE result = "retry"
      BY <1>5, <2>2, <2>3, <2>4, <3>1 DEF StatusLight
    <3>2. CASE result # "retry"
      <4>1. pc' = [pc EXCEPT ![t] = IF t = "inbound" THEN "token"
                                     ELSE IF todo[t] = {s} THEN "reinit_check" ELSE "velocity"]
        BY <2>2, <3>2
      <4>2. val' = [val EXCEPT ![t] = FALSE]
        BY <2>2, <3>2
      <4> QED BY <1>5, <2>3, <2>4, <4>1, <4>2 DEF StatusLight
    <3> QED BY <3>1, <3>2
  <2>6. ASSUME todo'[t] = {} PROVE pc'[t] \in {"token", "reinit_check"}
    <3>1. result # "retry"
      BY <2>1, <2>4, <2>6
    <3>2. todo[t] = {s}
      BY <2>1, <2>4, <2>6, <3>1
    <3> QED BY <2>2, <3>1, <3>2
  <2>7. \A u \in Tasks \ {t} : pc'[u] = pc[u]
    BY <2>2
  <2>8. LoopsHaveWork'
    BY <2>4, <2>6, <2>7
  <2> QED BY <2>5, <2>8
<1> QED BY <1>1, <1>2, <1>3, <1>4, <1>5

\* The rest of the message handlers
LEMMA TypedInbound == ASSUME Typed, Inbound PROVE Typed'
<1> USE DEF Typed, TypeOK, FlagsType, MapType, LocalsType, HostType, ServosType, LoopsHaveWork, Tasks, InboundPCs, DxlPCs, Goto,
            flags, map, locals, host, supply, regs, Receive
<1>1. CASE ConfigBegin \/ PosBegin \/ EmergencyStop
  <2>1. Head(inbox) \in Message /\ Tail(inbox) \in Seq(Message)
    BY <1>1 DEF ConfigBegin, PosBegin, EmergencyStop
  <2>2. Head(inbox).body \in Payload
    BY <2>1 DEF Message
  <2>3. CASE ConfigBegin
    <3>1. LocalsType' /\ FlagsType'
      BY <2>1, <2>2, <2>3 DEF ConfigBegin
    <3>2. MapType' /\ HostType' /\ ServosType'
      BY <2>1, <2>2, <2>3 DEF ConfigBegin
    <3>3. LoopsHaveWork'
      BY <2>3 DEF ConfigBegin
    <3> QED BY <3>1, <3>2, <3>3
  <2>4. CASE PosBegin
    BY <2>1, <2>2, <2>4 DEF PosBegin
  <2>5. CASE EmergencyStop
    BY <2>1, <2>5 DEF EmergencyStop
  <2> QED BY <1>1, <2>3, <2>4, <2>5
<1>2. CASE ConfigLightsBegin
  BY <1>2 DEF ConfigLightsBegin
<1>3. CASE ConfigLightsOff
  <2> DEFINE t == "inbound"
             s == Pick(todo[t])
  <2>1. s \in todo[t] /\ s \in Servos
    BY <1>3, PickIn DEF ConfigLightsOff
  <2>2. PICK result \in Results :
          /\ dynamixel_apply_register(t, "led", s, FALSE, result)
          /\ Advance(t, s, result)
          /\ Goto(t, IF result # "retry" /\ todo[t] = {s} THEN "clear" ELSE "led")
    BY <1>3 DEF ConfigLightsOff
  <2>3. /\ torque' \subseteq Servos /\ velocity' \in Profile /\ led' \subseteq Servos
        /\ att' \in [Tasks -> 1..Attempts]
    BY <2>1, <2>2, WriteType
  <2>4. /\ todo' \in [Tasks -> SUBSET Servos]
        /\ \A u \in Tasks \ {t} : todo'[u] = todo[u]
        /\ todo'[t] = IF result = "retry" THEN todo[t] ELSE todo[t] \ {s}
    BY <2>2 DEF Advance
  <2>5. TypeOK'
    BY <1>3, <2>2, <2>3, <2>4 DEF ConfigLightsOff
  <2>6. ASSUME todo'[t] = {} PROVE pc'[t] = "clear"
    <3>1. result # "retry"
      BY <2>1, <2>4, <2>6
    <3>2. todo[t] = {s}
      BY <2>1, <2>4, <2>6, <3>1
    <3> QED BY <2>2, <3>1, <3>2
  <2>7. \A u \in Tasks \ {t} : pc'[u] = pc[u]
    BY <2>2
  <2>8. LoopsHaveWork'
    BY <2>4, <2>6, <2>7
  <2> QED BY <2>5, <2>8
<1>4. CASE ConfigClear
  BY <1>4 DEF ConfigClear, Payload, Unset, Profile
<1>5. CASE ConfigToken
  <2>1. Pick(todo["inbound"]) \in Servos
    BY <1>5, PickIn DEF ConfigToken
  <2>2. CASE motor_power_rail_present
    BY <1>5, <2>1, <2>2 DEF ConfigToken, Profile
  <2>3. CASE ~motor_power_rail_present
    BY <1>5, <2>1, <2>3 DEF ConfigToken, Profile
  <2> QED BY <2>2, <2>3
<1>6. None \in Payload
  BY DEF None, Payload
<1>7. CASE ConfigRejected
  BY <1>6, <1>7 DEF ConfigRejected
<1>8. CASE ConfigAccepted
  BY <1>6, <1>8 DEF ConfigAccepted
<1>9. CASE PosApply
  BY <1>6, <1>9 DEF PosApply
<1>10. CASE PosFirst
  BY <1>10 DEF PosFirst
<1> QED BY <1>1, <1>2, <1>3, <1>4, <1>5, <1>7, <1>8, <1>9, <1>10, TypedLoops
        DEF Inbound

\* The Dynamixel task
LEMMA TypedTask == ASSUME Typed, DynamixelTask PROVE Typed'
<1> USE DEF Typed, TypeOK, FlagsType, MapType, LocalsType, HostType, ServosType, LoopsHaveWork, Tasks, InboundPCs, DxlPCs, Goto,
            flags, map, locals, host, supply, regs
<1>1. CASE TaskService
  BY <1>1 DEF TaskService
<1>2. CASE TaskTake
  BY <1>2 DEF TaskTake
<1>3. CASE TaskGate
  BY <1>3 DEF TaskGate
<1>4. CASE ReinitBegin
  BY <1>4 DEF ReinitBegin
<1>5. CASE ReinitCheck
  BY <1>5 DEF ReinitCheck, MayArm, Unset, Profile
<1> QED BY <1>1, <1>2, <1>3, <1>4, <1>5, TypedLoops DEF DynamixelTask

\* A message the queue takes, or drops, is a message.
LEMMA DeliverType ==
  ASSUME Typed, NEW kind \in {"CONFIG", "POS", "ESTOP"}, NEW body \in Payload,
         Deliver(kind, body)
  PROVE  inbox' \in Seq(Message)
<1>1. [kind |-> kind, body |-> body] \in Message
  BY DEF Message
<1>2. inbox \in Seq(Message)
  BY DEF Typed, TypeOK, HostType
<1>3. Append(inbox, [kind |-> kind, body |-> body]) \in Seq(Message)
  BY <1>1, <1>2
<1> QED BY <1>2, <1>3 DEF Deliver

\* The INITs a slow host has not answered are counted by a natural number.
LEMMA OutstandingType ==
  ASSUME Typed PROVE Outstanding \in Nat /\ inits \in Nat /\ inits <= Outstanding
<1> DEFINE C == {i \in DOMAIN inbox : inbox[i].kind = "CONFIG"}
<1>1. DOMAIN inbox = 1..Len(inbox) /\ Len(inbox) \in Nat
  BY DEF Typed, TypeOK, HostType
<1>2. IsFiniteSet(1..Len(inbox))
  BY <1>1, FS_Interval
<1>3. IsFiniteSet(C)
  BY <1>1, <1>2, FS_Subset
<1>4. Cardinality(C) \in Nat
  BY <1>3, FS_CardinalityType
<1>5. inits \in Nat
  BY BoundsAssumption DEF Typed, TypeOK, HostType
<1>6. Outstanding = inits + Cardinality(C)
  BY DEF Outstanding
<1> HIDE DEF C
<1> QED BY <1>4, <1>5, <1>6

\* The USB task, the timer callbacks, the host, the cable and the supply
LEMMA TypedOthers == ASSUME Typed, UsbPoll \/ Daemon \/ Environment PROVE Typed'
<1> USE DEF Typed, TypeOK, FlagsType, MapType, LocalsType, HostType, ServosType, LoopsHaveWork, flags, map, locals, host, supply, regs
<1>1. CASE UsbPoll
  BY <1>1 DEF UsbPoll, controller_connected, controller_disconnected
<1>2. CASE SendInit
  <2>1. inits < MaxInits
    <3> HIDE DEF Typed, TypeOK
    <3> QED BY <1>2, OutstandingType, BoundsAssumption DEF SendInit
  <2>2. inits' \in 0..MaxInits
    BY <1>2, <2>1, BoundsAssumption DEF SendInit
  <2> QED BY <1>2, <2>2 DEF SendInit
<1>3. CASE ResetRequest
  BY <1>3 DEF ResetRequest
<1>4. CASE SampleRail
  BY <1>4 DEF SampleRail
<1>5. CASE HostConfig
  <2>1. inbox' \in Seq(Message)
    BY <1>5, DeliverType, PayloadAssumption DEF HostConfig
  <2>2. inits' \in 0..MaxInits
    BY <1>5, BoundsAssumption DEF HostConfig
  <2>3. FlagsType' /\ MapType' /\ LocalsType' /\ ServosType'
    BY <1>5 DEF HostConfig
  <2>4. HostType' /\ LoopsHaveWork'
    BY <1>5, <2>1, <2>2 DEF HostConfig
  <2> QED BY <2>3, <2>4
<1>6. CASE HostPos
  <2>1. inbox' \in Seq(Message)
    BY <1>6, DeliverType, PayloadAssumption DEF HostPos
  <2> QED BY <1>6, <2>1 DEF HostPos
<1>7. CASE HostEmergencyStop
  <2>1. None \in Payload
    BY DEF None, Payload
  <2>2. inbox' \in Seq(Message)
    BY <1>7, <2>1, DeliverType DEF HostEmergencyStop
  <2> QED BY <1>7, <2>2 DEF HostEmergencyStop
<1>8. CASE Unplug
  <2>1. inits' \in 0..MaxInits
    BY <1>8, BoundsAssumption DEF Unplug
  <2>2. FlagsType' /\ MapType' /\ LocalsType' /\ ServosType'
    BY <1>8 DEF Unplug
  <2>3. HostType' /\ LoopsHaveWork'
    BY <1>8, <2>1 DEF Unplug
  <2> QED BY <2>2, <2>3
<1>9. CASE Plug
  BY <1>9 DEF Plug
<1>10. CASE PowerCut
  <2>1. TypeOK'
    <3>1. FlagsType' /\ MapType' /\ LocalsType' /\ HostType'
      BY <1>10 DEF PowerCut
    <3>2. ServosType'
      BY <1>10 DEF PowerCut, Unset, Profile
    <3> QED BY <3>1, <3>2
  <2>2. LoopsHaveWork'
    BY <1>10 DEF PowerCut
  <2> QED BY <2>1, <2>2
<1>11. CASE PowerReturn
  BY <1>11 DEF PowerReturn
<1> QED BY <1>1, <1>2, <1>3, <1>4, <1>5, <1>6, <1>7, <1>8, <1>9, <1>10, <1>11
        DEF Daemon, Environment

LEMMA TypedStutter == ASSUME Typed, UNCHANGED vars PROVE Typed'
BY DEF Typed, TypeOK, FlagsType, MapType, LocalsType, HostType, ServosType, LoopsHaveWork, vars, flags, map, locals, host, supply, regs

\* Every variable keeps its type, and no loop of either task runs on after its
\* last servo: in every reachable state, whatever the values of the constants.
THEOREM AlwaysTyped == Spec => []Typed
<1>1. Typed /\ [Next]_vars => Typed'
  BY TypedInbound, TypedTask, TypedOthers, TypedStutter DEF Next
<1> QED BY TypedInit, <1>1, PTL DEF Spec

\* The type invariant of the torque control
THEOREM TypeCorrect == Spec => []TypeOK
<1>1. Typed => TypeOK
  BY DEF Typed
<1> QED BY AlwaysTyped, <1>1, PTL

-----------------------------------------------------------------------------
(* No torque without a velocity that a CONFIG asked for                      *)

\* The servos to which such a velocity was written
Written == {s \in Servos : velocity[s] # Factory}

\* Every copy of "this servo is confirmed" the tasks hold is backed by the
\* servo: the map's flag, and the copy a torque loop took of it; and what they
\* write next is what a CONFIG asked for.
Verified ==
  /\ confirmed \subseteq Written
  /\ torque \subseteq Written
  /\ \A t \in Tasks : snap[t] \subseteq Written
  /\ \A s \in motors : profile[s] \in Velocities
  /\ pc["inbound"] = "velocity" => Pick(todo["inbound"]) \in motors
  /\ pc["dxl"] \in {"velocity", "reinit_led"} => \A s \in todo["dxl"] : plan[s] \in Velocities

\* One attempt changes its own register only, at its own servo, towards the
\* value asked for; true is returned only when the register holds that value.
LEMMA WriteEffect ==
  ASSUME NEW t, NEW s, NEW value, NEW result, NEW reg \in {"torque", "velocity", "led"},
         dynamixel_apply_register(t, reg, s, value, result)
  PROVE  /\ torque' \in IF reg = "torque" THEN {torque, Put(torque, s, value)} ELSE {torque}
         /\ velocity' \in IF reg = "velocity" THEN {velocity, [velocity EXCEPT ![s] = value]}
                                              ELSE {velocity}
         /\ led' \in IF reg = "led" THEN {led, Put(led, s, value)} ELSE {led}
         /\ result = "ok" => WriteRegister(reg, s, value)
<1>1. CASE UNCHANGED regs /\ result # "ok"
  BY <1>1 DEF regs
<1>2. CASE WriteRegister(reg, s, value)
  BY <1>2 DEF WriteRegister
<1> QED BY <1>1, <1>2 DEF dynamixel_apply_register

LEMMA VerifiedInit == Init => Verified
BY DEF Init, Verified, Tasks

LEMMA VerifiedLoops ==
  ASSUME Typed, Verified, NEW t \in Tasks,
         TorqueBegin(t) \/ TorqueWrite(t) \/ TorqueDone(t) \/ VelocityWrite(t) \/ StatusLight(t)
  PROVE  Verified'
<1> USE DEF Verified, Goto
<1>0. /\ pc \in [Tasks -> InboundPCs \union DxlPCs]
      /\ pc["inbound"] \in InboundPCs /\ pc["dxl"] \in DxlPCs
      /\ todo \in [Tasks -> SUBSET Servos]
      /\ snap \in [Tasks -> SUBSET Servos]
      /\ val \in [Tasks -> BOOLEAN]
  BY DEF Typed, TypeOK, LocalsType
<1>00. velocity \in Profile /\ Velocities \subseteq Nat \ {Factory} /\ motors \subseteq Servos
  BY VelocitiesAssumption DEF Typed, TypeOK, ServosType, MapType, Factory
<1>1. CASE TorqueBegin(t)
  BY <1>0, <1>1 DEF TorqueBegin, flags, map, supply, regs, Tasks, Written
<1>2. CASE TorqueWrite(t)
  <2> DEFINE s == Pick(todo[t])
             on == val[t] /\ s \in snap[t]
  <2>1. PICK result \in Results :
          /\ dynamixel_apply_register(t, "torque", s, on, result)
          /\ Advance(t, s, result)
          /\ Goto(t, IF result # "retry" /\ todo[t] = {s} THEN "torque_done" ELSE "torque")
    BY <1>2 DEF TorqueWrite
  <2>2. on \in BOOLEAN /\ (on => s \in Written)
    BY <1>0
  <2>3. velocity' = velocity /\ Written' = Written /\ torque' \in {torque, Put(torque, s, on)}
    BY <2>1, WriteEffect DEF Written
  <2>4. torque' \subseteq Written
    BY <2>2, <2>3 DEF Put
  <2>5. UNCHANGED <<confirmed, snap, motors, profile, plan>>
    BY <1>2 DEF TorqueWrite, map
  <2>6. \A u \in Tasks : /\ u # t => pc'[u] = pc[u] /\ todo'[u] = todo[u]
                         /\ u = t => pc'[u] \in {"torque", "torque_done"}
    BY <1>0, <2>1 DEF Advance
  <2> QED BY <2>3, <2>4, <2>5, <2>6 DEF Tasks
<1>3. CASE TorqueDone(t)
  BY <1>0, <1>3 DEF TorqueDone, flags, map, supply, regs, Tasks, Written
<1>4. CASE VelocityWrite(t)
  <2> DEFINE s == Pick(todo[t])
             value == Wanted(t, s)
  <2>1. PICK result \in Results :
          /\ dynamixel_apply_register(t, "velocity", s, value, result)
          /\ IF result = "retry"
               THEN UNCHANGED <<confirmed, val, pc>>
               ELSE /\ dynamixel_mark_velocity_confirmed(s, result = "ok")
                    /\ val' = [val EXCEPT ![t] = result = "ok"]
                    /\ Goto(t, IF t = "inbound" THEN "token_led" ELSE "reinit_led")
    BY <1>4 DEF VelocityWrite
  <2>2. s \in todo[t] /\ s \in Servos /\ pc[t] = "velocity"
    BY <1>0, <1>4, PickIn DEF VelocityWrite, Typed, LoopsHaveWork
  <2>3. value \in Nat \ {Factory}
    BY <1>00, <2>2 DEF Wanted, Tasks
  <2> HIDE DEF value
  <2>4. /\ torque' = torque
        /\ velocity' \in {velocity, [velocity EXCEPT ![s] = value]}
        /\ result = "ok" => WriteRegister("velocity", s, value)
    BY <2>1, WriteEffect
  <2>5. Written \subseteq Written'
    BY <1>00, <2>2, <2>3, <2>4 DEF Written, Profile
  <2>6. result = "ok" => s \in Written'
    BY <1>00, <2>2, <2>3, <2>4 DEF WriteRegister, Written, Profile
  <2>7. UNCHANGED <<todo, snap, motors, profile, plan>>
    BY <1>4 DEF VelocityWrite
  <2>8. confirmed' \subseteq Written'
    BY <2>1, <2>5, <2>6 DEF dynamixel_mark_velocity_confirmed, Put
  <2>9. \/ pc' = pc
        \/ pc' = [pc EXCEPT ![t] = IF t = "inbound" THEN "token_led" ELSE "reinit_led"]
    BY <2>1
  <2>10. /\ pc'["inbound"] = "velocity" => pc["inbound"] = "velocity"
         /\ pc'["dxl"] \in {"velocity", "reinit_led"} => pc["dxl"] \in {"velocity", "reinit_led"}
    BY <1>0, <2>2, <2>9 DEF Tasks
  <2> QED BY <2>4, <2>5, <2>7, <2>8, <2>10
<1>5. CASE StatusLight(t)
  <2> DEFINE s == Pick(todo[t])
  <2>1. PICK result \in Results :
          /\ dynamixel_apply_register(t, "led", s, val[t], result)
          /\ Advance(t, s, result)
          /\ IF result = "retry"
               THEN UNCHANGED <<val, pc>>
               ELSE /\ val' = [val EXCEPT ![t] = FALSE]
                    /\ Goto(t, IF t = "inbound" THEN "token"
                               ELSE IF todo[t] = {s} THEN "reinit_check" ELSE "velocity")
    BY <1>5 DEF StatusLight
  <2>2. velocity' = velocity /\ torque' = torque /\ Written' = Written
    BY <2>1, WriteEffect DEF Written
  <2>3. UNCHANGED <<confirmed, snap, motors, profile, plan>>
    BY <1>5 DEF StatusLight, map
  <2>4. \A u \in Tasks : todo'[u] \subseteq todo[u]
    BY <1>0, <2>1 DEF Advance
  <2>5. pc[t] \in {"token_led", "reinit_led"}
    BY <1>5 DEF StatusLight
  <2>6. \/ pc' = pc
        \/ t = "inbound" /\ pc' = [pc EXCEPT ![t] = "token"]
        \/ t # "inbound" /\ pc' = [pc EXCEPT ![t] = IF todo[t] = {s} THEN "reinit_check" ELSE "velocity"]
    BY <2>1
  <2>7. /\ pc'["inbound"] = "velocity" => pc["inbound"] = "velocity" /\ t # "inbound"
        /\ pc'["dxl"] \in {"velocity", "reinit_led"} => pc["dxl"] \in {"velocity", "reinit_led"}
    BY <1>0, <2>5, <2>6 DEF Tasks, DxlPCs, InboundPCs
  <2>8. t # "inbound" => todo'["inbound"] = todo["inbound"]
    BY <1>0, <2>1 DEF Advance, Tasks
  <2> QED BY <2>2, <2>3, <2>4, <2>7, <2>8 DEF Tasks
<1> QED BY <1>1, <1>2, <1>3, <1>4, <1>5

LEMMA VerifiedInbound == ASSUME Typed, Verified, Inbound PROVE Verified'
<1> USE DEF Verified, Tasks, Goto, flags, map, supply, regs
<1>0. /\ pc \in [Tasks -> InboundPCs \union DxlPCs]
      /\ pc["inbound"] \in InboundPCs /\ pc["dxl"] \in DxlPCs
      /\ todo \in [Tasks -> SUBSET Servos]
      /\ val \in [Tasks -> BOOLEAN]
      /\ motors \subseteq Servos /\ profile \in Profile
  BY DEF Typed, TypeOK, LocalsType, MapType
<1>1. CASE ConfigBegin \/ PosBegin \/ EmergencyStop
  BY <1>0, <1>1 DEF ConfigBegin, PosBegin, EmergencyStop, Written
<1>2. CASE ConfigLightsBegin
  BY <1>0, <1>2 DEF ConfigLightsBegin, Written
<1>3. CASE ConfigLightsOff
  <2> DEFINE s == Pick(todo["inbound"])
  <2>1. PICK result \in Results :
          /\ dynamixel_apply_register("inbound", "led", s, FALSE, result)
          /\ Advance("inbound", s, result)
          /\ Goto("inbound", IF result # "retry" /\ todo["inbound"] = {s} THEN "clear" ELSE "led")
    BY <1>3 DEF ConfigLightsOff
  <2>2. velocity' = velocity /\ torque' = torque /\ Written' = Written
    BY <2>1, WriteEffect DEF Written
  <2>3. UNCHANGED <<confirmed, snap, motors, profile, plan>>
    BY <1>3 DEF ConfigLightsOff
  <2>4. /\ pc'["inbound"] \in {"clear", "led"}
        /\ pc'["dxl"] = pc["dxl"] /\ todo'["dxl"] = todo["dxl"]
    BY <1>0, <2>1 DEF Advance
  <2> QED BY <2>2, <2>3, <2>4
<1>4. CASE ConfigClear
  BY <1>0, <1>4 DEF ConfigClear, Written
<1>5. CASE ConfigToken
  <2> DEFINE s == Pick(todo["inbound"])
  <2>1. s \in Servos /\ motors' = motors \union {s}
    BY <1>0, <1>5, PickIn DEF ConfigToken
  <2>2. \A u \in motors' : profile'[u] \in Velocities
    BY <1>0, <1>5, <2>1 DEF ConfigToken, Profile
  <2>3. UNCHANGED <<confirmed, torque, velocity, snap, plan>> /\ Written' = Written
    BY <1>5 DEF ConfigToken, Written
  <2>4. /\ pc'["inbound"] = "velocity" => todo' = todo
        /\ pc'["dxl"] = pc["dxl"] /\ todo'["dxl"] = todo["dxl"]
    BY <1>0, <1>5 DEF ConfigToken
  <2> QED BY <2>1, <2>2, <2>3, <2>4
<1>6. CASE ConfigRejected \/ ConfigAccepted
  BY <1>0, <1>6 DEF ConfigRejected, ConfigAccepted, Written
<1>7. CASE PosApply
  BY <1>0, <1>7 DEF PosApply, Written
<1>8. CASE PosFirst
  BY <1>0, <1>8 DEF PosFirst, Written
<1> QED BY <1>1, <1>2, <1>3, <1>4, <1>5, <1>6, <1>7, <1>8, VerifiedLoops DEF Inbound

LEMMA VerifiedTask == ASSUME Typed, Verified, DynamixelTask PROVE Verified'
<1> USE DEF Verified, Tasks, Goto, flags, map, supply, regs
<1>0. /\ pc \in [Tasks -> InboundPCs \union DxlPCs]
      /\ pc["inbound"] \in InboundPCs /\ pc["dxl"] \in DxlPCs
      /\ todo \in [Tasks -> SUBSET Servos]
      /\ val \in [Tasks -> BOOLEAN]
  BY DEF Typed, TypeOK, LocalsType
<1>1. CASE TaskService \/ TaskTake \/ TaskGate
  BY <1>0, <1>1 DEF TaskService, TaskTake, TaskGate, Written
<1>2. CASE ReinitBegin
  BY <1>0, <1>2 DEF ReinitBegin, Written
<1>3. CASE ReinitCheck
  BY <1>0, <1>3 DEF ReinitCheck, Written
<1> QED BY <1>1, <1>2, <1>3, VerifiedLoops DEF DynamixelTask

\* Nothing else touches the servos while the rail stays up.
LEMMA VerifiedOthers ==
  ASSUME PowerCuts = "none", Verified, UsbPoll \/ Daemon \/ Environment \/ UNCHANGED vars
  PROVE  Verified'
BY DEF Verified, Written, UsbPoll, Daemon, Environment, SendInit, ResetRequest, SampleRail,
       HostConfig, HostPos, HostEmergencyStop, Unplug, Plug, PowerCut, PowerReturn,
       vars, map, locals, regs

\* Without power cuts, in every reachable state and for every value of the
\* other constants, what the tasks believe of a servo is true of the servo.
THEOREM AlwaysVerified == ASSUME PowerCuts = "none" PROVE Spec => []Verified
<1>1. Typed /\ Verified /\ [Next]_vars => Verified'
  BY VerifiedInbound, VerifiedTask, VerifiedOthers DEF Next
<1> QED BY VerifiedInit, AlwaysTyped, <1>1, PTL DEF Spec

\* dynamixel_set_torque_all never energises a servo whose Profile Velocity was
\* not written to it.
THEOREM OnlyVerifiedServosMove == ASSUME PowerCuts = "none" PROVE Spec => []EnergisedIsVerified
<1>1. Verified => EnergisedIsVerified
  BY DEF Verified, Written, EnergisedIsVerified
<1> QED BY AlwaysVerified, <1>1, PTL

-----------------------------------------------------------------------------
(* The emergency stop                                                        *)

\* A task carries TRUE from one step to the next only to light an LED or to
\* turn torque on, and only the Dynamixel task does the latter.
CarriesOn ==
  /\ val["inbound"] => pc["inbound"] = "token_led"
  /\ val["dxl"] => pc["dxl"] \in {"reinit_led", "torque_begin", "torque", "torque_done"}

LEMMA CarriesOnInit == Init => CarriesOn
BY DEF Init, CarriesOn, Tasks

LEMMA CarriesOnStep == ASSUME Typed, CarriesOn, [Next]_vars PROVE CarriesOn'
<1> USE DEF CarriesOn, Tasks, Goto, flags, map, locals, supply, regs
<1>0. /\ pc \in [Tasks -> InboundPCs \union DxlPCs]
      /\ val \in [Tasks -> BOOLEAN]
  BY DEF Typed, TypeOK, LocalsType
<1>1. ASSUME NEW t \in Tasks,
             TorqueBegin(t) \/ TorqueWrite(t) \/ TorqueDone(t) \/ VelocityWrite(t) \/ StatusLight(t)
      PROVE  CarriesOn'
  <2>1. CASE TorqueBegin(t)
    BY <1>0, <2>1 DEF TorqueBegin
  <2>2. CASE TorqueWrite(t)
    BY <1>0, <2>2 DEF TorqueWrite
  <2>3. CASE TorqueDone(t)
    BY <1>0, <2>3 DEF TorqueDone
  <2>4. CASE VelocityWrite(t)
    BY <1>0, <2>4 DEF VelocityWrite
  <2>5. CASE StatusLight(t)
    BY <1>0, <2>5 DEF StatusLight
  <2> QED BY <1>1, <2>1, <2>2, <2>3, <2>4, <2>5
<1>2. CASE Inbound
  BY <1>0, <1>1, <1>2 DEF Inbound, ConfigBegin, PosBegin, EmergencyStop, Receive,
     ConfigLightsBegin, ConfigLightsOff, ConfigClear, ConfigToken, ConfigRejected,
     ConfigAccepted, PosApply, PosFirst
<1>3. CASE DynamixelTask
  BY <1>0, <1>1, <1>3 DEF DynamixelTask, TaskService, TaskTake, TaskGate, ReinitBegin,
     ReinitCheck
<1>4. CASE UsbPoll \/ Daemon \/ Environment
  BY <1>4 DEF UsbPoll, Daemon, Environment, SendInit, ResetRequest, SampleRail,
     HostConfig, HostPos, HostEmergencyStop, Unplug, Plug, PowerCut, PowerReturn
<1>5. CASE UNCHANGED vars
  BY <1>5 DEF vars
<1> QED BY <1>2, <1>3, <1>4, <1>5 DEF Next

THEOREM AlwaysCarriesOn == Spec => []CarriesOn
BY CarriesOnInit, CarriesOnStep, AlwaysTyped, PTL DEF Spec

\* A loop of a task that is not arming takes torque away, or leaves it alone.
LEMMA OnlyArmingEnergises ==
  ASSUME Typed, CarriesOn, [Next]_vars
  PROVE  torque' \subseteq torque \/ Arming
<1> USE DEF CarriesOn, Tasks, flags, map, locals, supply, regs
<1>0. val \in [Tasks -> BOOLEAN]
  BY DEF Typed, TypeOK, LocalsType
<1>1. ASSUME NEW t \in Tasks, TorqueWrite(t) PROVE torque' \subseteq torque \/ Arming
  <2> DEFINE s == Pick(todo[t])
             on == val[t] /\ s \in snap[t]
  <2>1. PICK result \in Results : dynamixel_apply_register(t, "torque", s, on, result)
    BY <1>1 DEF TorqueWrite
  <2>2. torque' \in {torque, Put(torque, s, on)}
    BY <1>0, <2>1, WriteEffect
  <2>3. pc[t] = "torque"
    BY <1>1 DEF TorqueWrite
  <2>4. CASE ~on
    BY <2>2, <2>4 DEF Put
  <2>5. CASE on
    BY <2>3, <2>5 DEF Arming
  <2> QED BY <2>4, <2>5
<1>2. ASSUME NEW t \in Tasks, VelocityWrite(t) \/ StatusLight(t) PROVE torque' = torque
  <2> DEFINE s == Pick(todo[t])
  <2>1. PICK result : \/ dynamixel_apply_register(t, "velocity", s, Wanted(t, s), result)
                      \/ dynamixel_apply_register(t, "led", s, val[t], result)
    BY <1>2 DEF VelocityWrite, StatusLight
  <2>2. CASE dynamixel_apply_register(t, "velocity", s, Wanted(t, s), result)
    BY <2>2, WriteEffect
  <2>3. CASE dynamixel_apply_register(t, "led", s, val[t], result)
    BY <1>0, <2>3, WriteEffect
  <2> QED BY <2>1, <2>2, <2>3
<1>3. ASSUME ConfigLightsOff PROVE torque' = torque
  <2>1. \E result : dynamixel_apply_register("inbound", "led", Pick(todo["inbound"]), FALSE, result)
    BY <1>3 DEF ConfigLightsOff
  <2> QED BY <2>1, WriteEffect
<1>4. CASE Inbound
  BY <1>1, <1>2, <1>3, <1>4 DEF Inbound, ConfigBegin, PosBegin, EmergencyStop,
     ConfigLightsBegin, ConfigClear, ConfigToken, ConfigRejected, ConfigAccepted,
     PosApply, PosFirst, TorqueBegin, TorqueDone
<1>5. CASE DynamixelTask
  BY <1>1, <1>2, <1>5 DEF DynamixelTask, TaskService, TaskTake, TaskGate, ReinitBegin,
     ReinitCheck, TorqueBegin, TorqueDone
<1>6. CASE UsbPoll \/ Daemon \/ Environment
  BY <1>6 DEF UsbPoll, Daemon, Environment, SendInit, ResetRequest, SampleRail,
     HostConfig, HostPos, HostEmergencyStop, Unplug, Plug, PowerCut, PowerReturn
<1>7. CASE UNCHANGED vars
  BY <1>7 DEF vars
<1> QED BY <1>4, <1>5, <1>6, <1>7 DEF Next

\* With the emergency stop set no step begins to arm.
LEMMA NoArmingBegins ==
  ASSUME Typed, CarriesOn, [Next]_vars, emergency_stop_active, ~Arming
  PROVE  ~Arming'
<1> USE DEF CarriesOn, Tasks, Arming, Goto, flags, map, locals, supply, regs
<1>0. /\ pc \in [Tasks -> InboundPCs \union DxlPCs]
      /\ val \in [Tasks -> BOOLEAN]
  BY DEF Typed, TypeOK, LocalsType
<1>1. ASSUME NEW t \in Tasks,
             TorqueBegin(t) \/ TorqueWrite(t) \/ TorqueDone(t) \/ VelocityWrite(t) \/ StatusLight(t)
      PROVE  ~Arming'
  <2>1. CASE TorqueBegin(t)
    BY <1>0, <2>1 DEF TorqueBegin
  <2>2. CASE TorqueWrite(t)
    BY <1>0, <2>2 DEF TorqueWrite
  <2>3. CASE TorqueDone(t)
    BY <1>0, <2>3 DEF TorqueDone
  <2>4. CASE VelocityWrite(t)
    BY <1>0, <2>4 DEF VelocityWrite
  <2>5. CASE StatusLight(t)
    BY <1>0, <2>5 DEF StatusLight
  <2> QED BY <1>1, <2>1, <2>2, <2>3, <2>4, <2>5
<1>2. CASE Inbound
  BY <1>0, <1>1, <1>2 DEF Inbound, ConfigBegin, PosBegin, EmergencyStop, Receive,
     ConfigLightsBegin, ConfigLightsOff, ConfigClear, ConfigToken, ConfigRejected,
     ConfigAccepted, PosApply, PosFirst
<1>3. CASE ReinitCheck
  BY <1>0, <1>3 DEF ReinitCheck, MayArm
<1>4. CASE DynamixelTask
  BY <1>0, <1>1, <1>3, <1>4 DEF DynamixelTask, TaskService, TaskTake, TaskGate, ReinitBegin
<1>5. CASE UsbPoll \/ Daemon \/ Environment
  BY <1>5 DEF UsbPoll, Daemon, Environment, SendInit, ResetRequest, SampleRail,
     HostConfig, HostPos, HostEmergencyStop, Unplug, Plug, PowerCut, PowerReturn
<1>6. CASE UNCHANGED vars
  BY <1>6 DEF vars
<1> QED BY <1>2, <1>4, <1>5, <1>6 DEF Next

\* Once the emergency stop is set, the one arming sequence that may be under
\* way is the last: for any servos, faults, cuts and cable.
THEOREM EmergencyStopIsFinal == Spec => EmergencyStopLatches
<1>1. Typed /\ CarriesOn /\ [Next]_vars =>
        [emergency_stop_active =>
           /\ ~Arming => ~Arming'
           /\ torque' \subseteq torque \/ Arming]_vars
  BY OnlyArmingEnergises, NoArmingBegins
<1> QED BY AlwaysTyped, AlwaysCarriesOn, <1>1, PTL DEF Spec, EmergencyStopLatches

-----------------------------------------------------------------------------
(* Asking for a configuration                                                *)

\* Whatever the cable, the reset pin and bad CONFIGs do, a board that waits
\* for its configuration has its INIT timer running, or a CONFIG in hand.
THEOREM AlwaysAsks == Spec => []AsksUntilConfigured
<1> USE DEF AsksUntilConfigured, Tasks, Goto, flags, map, locals, supply, regs
<1>1. Init => AsksUntilConfigured
  BY DEF Init
<1>2. ASSUME Typed, AsksUntilConfigured, [Next]_vars PROVE AsksUntilConfigured'
  <2>0. pc \in [Tasks -> InboundPCs \union DxlPCs]
    BY <1>2 DEF Typed, TypeOK, LocalsType
  <2>1. ASSUME NEW t \in Tasks,
               TorqueBegin(t) \/ TorqueWrite(t) \/ TorqueDone(t) \/ VelocityWrite(t) \/ StatusLight(t)
        PROVE  AsksUntilConfigured'
    BY <1>2, <2>0, <2>1 DEF TorqueBegin, TorqueWrite, TorqueDone, VelocityWrite, StatusLight
  <2>2. CASE Inbound
    BY <1>2, <2>0, <2>1, <2>2 DEF Inbound, ConfigBegin, PosBegin, EmergencyStop, Receive,
       ConfigLightsBegin, ConfigLightsOff, ConfigClear, ConfigToken, ConfigRejected,
       ConfigAccepted, PosApply, PosFirst
  <2>3. CASE DynamixelTask
    BY <1>2, <2>0, <2>1, <2>3 DEF DynamixelTask, TaskService, TaskTake, TaskGate, ReinitBegin,
       ReinitCheck
  <2>4. CASE UsbPoll \/ Daemon \/ Environment
    BY <1>2, <2>4 DEF UsbPoll, controller_connected, controller_disconnected, Daemon,
       Environment, SendInit, ResetRequest, SampleRail, HostConfig, HostPos,
       HostEmergencyStop, Unplug, Plug, PowerCut, PowerReturn
  <2>5. CASE UNCHANGED vars
    BY <1>2, <2>5 DEF vars
  <2> QED BY <1>2, <2>2, <2>3, <2>4, <2>5 DEF Next
<1> QED BY AlwaysTyped, <1>1, <1>2, PTL DEF Spec

-----------------------------------------------------------------------------
(* Torque and the first command                                              *)

\* The board is not connected, asks for its configuration, or reads it.
ConfigPCs == InboundPCs \ {"receive", "pos_apply", "pos_first", "halted"}
Asking == ~cdc_connected \/ init_timer \/ pc["inbound"] \in ConfigPCs

\* The host may send positions, or has sent some that count.
Commanding ==
  \/ host_ready \/ has_first_frame_been_received
  \/ pc["inbound"] \in {"pos_apply", "pos_first"}
  \/ \E i \in DOMAIN inbox : inbox[i].kind = "POS"

\* With one INIT at a time and a cable that stays, a session has one order: the
\* board asks until it has a configuration, and only then positions come.
QueueInv ==
  /\ inits > 0 => \A i \in DOMAIN inbox : inbox[i].kind # "CONFIG"
  /\ \A i, j \in DOMAIN inbox : inbox[i].kind = "CONFIG" /\ inbox[j].kind = "CONFIG" => i = j
  /\ \A i \in DOMAIN inbox : inbox[i].kind = "POS" => inbox[i].body \in Frames
NoConfig == inits = 0 /\ \A i \in DOMAIN inbox : inbox[i].kind # "CONFIG"

OrderInv ==
  /\ cdc_connected => link
  /\ init_timer => cdc_connected
  /\ ~init_timer => NoConfig
  /\ pc["inbound"] \in ConfigPCs => ~init_timer /\ cdc_connected
  /\ Asking => ~Commanding

CommandInv ==
  /\ pc["inbound"] = "pos_apply" => msg \in Frames
  /\ has_first_frame_been_received \/ pc["inbound"] = "pos_first" => commanded # {}
  /\ Arming => has_first_frame_been_received

SessionInv == QueueInv /\ OrderInv /\ CommandInv

\* The cable and the pin leave a session alone, and an INIT is answered before the next one.
Singular == Unplugs = "none" /\ ~ResetPin /\ MaxInits = 1
            /\ \A frame \in Frames : frame.ok => frame.ids # {}

LEMMA SessionInit == Init => SessionInv
<1> SUFFICES ASSUME Init PROVE SessionInv
  OBVIOUS
<1>1. inbox = <<>> /\ DOMAIN inbox = {}
  BY DEF Init
<1>2. pc["inbound"] = "receive" /\ ~Arming
  BY DEF Init, Arming, Tasks
<1>3. QueueInv /\ NoConfig /\ ~Commanding
  BY <1>1, <1>2 DEF Init, QueueInv, NoConfig, Commanding
<1> QED BY <1>2, <1>3 DEF Init, SessionInv, OrderInv, CommandInv, ConfigPCs

\* The loops of both tasks neither leave a CONFIG nor begin to arm.
LEMMA SessionLoops ==
  ASSUME Typed, CarriesOn, SessionInv, NEW t \in Tasks,
         TorqueBegin(t) \/ TorqueWrite(t) \/ TorqueDone(t) \/ VelocityWrite(t) \/ StatusLight(t)
  PROVE  SessionInv'
<1> USE DEF Tasks, Goto, flags, map, host
<1>0. pc \in [Tasks -> InboundPCs \union DxlPCs] /\ val \in [Tasks -> BOOLEAN]
  BY DEF Typed, TypeOK, LocalsType
<1>1. UNCHANGED <<flags, commanded, msg, inbox, host, cdc_connected>>
  BY DEF TorqueBegin, TorqueWrite, TorqueDone, VelocityWrite, StatusLight
<1>2. \/ pc'["inbound"] = pc["inbound"]
      \/ pc["inbound"] \in ConfigPCs /\ pc'["inbound"] \in ConfigPCs
  <2> USE DEF ConfigPCs, InboundPCs
  <2>1. CASE TorqueBegin(t)
    BY <1>0, <2>1 DEF TorqueBegin
  <2>2. CASE TorqueWrite(t)
    BY <1>0, <2>2 DEF TorqueWrite
  <2>3. CASE TorqueDone(t)
    BY <1>0, <2>3 DEF TorqueDone
  <2>4. CASE VelocityWrite(t)
    BY <1>0, <2>4 DEF VelocityWrite
  <2>5. CASE StatusLight(t)
    <3>1. \/ pc' = pc
          \/ t = "inbound" /\ pc' = [pc EXCEPT ![t] = "token"]
          \/ t # "inbound" /\ \E l : pc' = [pc EXCEPT ![t] = l]
      BY <2>5 DEF StatusLight
    <3>2. pc[t] \in {"token_led", "reinit_led"}
      BY <2>5 DEF StatusLight
    <3>3. pc["inbound"] \in InboundPCs
      BY DEF Typed, TypeOK, LocalsType
    <3> QED BY <1>0, <3>1, <3>2, <3>3
  <2> QED BY <2>1, <2>2, <2>3, <2>4, <2>5
<1>3. Arming' => Arming
  <2> USE DEF Arming, CarriesOn
  <2>1. CASE TorqueBegin(t)
    BY <1>0, <2>1 DEF TorqueBegin
  <2>2. CASE TorqueWrite(t)
    BY <1>0, <2>2 DEF TorqueWrite
  <2>3. CASE TorqueDone(t)
    BY <1>0, <2>3 DEF TorqueDone
  <2>4. CASE VelocityWrite(t)
    BY <1>0, <2>4 DEF VelocityWrite
  <2>5. CASE StatusLight(t)
    BY <1>0, <2>5 DEF StatusLight
  <2> QED BY <2>1, <2>2, <2>3, <2>4, <2>5
<1>4. QueueInv'
  BY <1>1 DEF SessionInv, QueueInv
<1>5. OrderInv'
  BY <1>1, <1>2 DEF SessionInv, OrderInv, NoConfig, Asking, Commanding, ConfigPCs
<1>6. CommandInv'
  BY <1>1, <1>2, <1>3 DEF SessionInv, CommandInv, ConfigPCs
<1> QED BY <1>4, <1>5, <1>6 DEF SessionInv

\* What is behind the message that is taken stays in its order.
LEMMA ReceiveIs ==
  ASSUME Typed, QueueInv, NEW kind, Receive(kind)
  PROVE  /\ QueueInv' \/ inits' # inits
         /\ inbox # <<>> /\ 1 \in DOMAIN inbox /\ inbox[1] = Head(inbox) /\ inbox[1].kind = kind
         /\ \A i \in DOMAIN inbox' : i + 1 \in DOMAIN inbox /\ i + 1 # 1 /\ inbox'[i] = inbox[i + 1]
<1>1. inbox \in Seq(Message) /\ inbox # <<>> /\ inbox' = Tail(inbox) /\ Head(inbox).kind = kind
  BY DEF Typed, TypeOK, HostType, Receive
<1>2. 1 \in DOMAIN inbox /\ inbox[1] = Head(inbox)
  BY <1>1
<1>3. \A i \in DOMAIN inbox' : i \in Nat /\ i + 1 \in DOMAIN inbox /\ i + 1 # 1 /\ inbox'[i] = inbox[i + 1]
  BY <1>1
<1>4. ASSUME inits' = inits PROVE QueueInv'
  <2>1. \A i, j \in DOMAIN inbox' : i + 1 = j + 1 => i = j
    BY <1>3
  <2> QED BY <1>3, <1>4, <2>1 DEF QueueInv
<1> QED BY <1>1, <1>2, <1>3, <1>4

LEMMA SessionMessages ==
  ASSUME Typed, SessionInv, Singular, ConfigBegin \/ PosBegin \/ EmergencyStop
  PROVE  SessionInv'
<1> USE DEF Tasks, Goto, flags, map, host
<1>0. pc \in [Tasks -> InboundPCs \union DxlPCs]
  BY DEF Typed, TypeOK, LocalsType
<1>1. PICK kind : Receive(kind)
  BY DEF ConfigBegin, PosBegin, EmergencyStop
<1>2. QueueInv /\ OrderInv /\ CommandInv /\ pc["inbound"] = "receive"
  BY <1>1 DEF SessionInv, Receive
<1>3. UNCHANGED <<inits, val, commanded, has_first_frame_been_received, host_ready, cdc_connected, link>>
      /\ pc'["dxl"] = pc["dxl"]
  BY <1>0 DEF ConfigBegin, PosBegin, EmergencyStop
<1>4. /\ QueueInv' /\ 1 \in DOMAIN inbox /\ inbox[1] = Head(inbox) /\ inbox[1].kind = kind
      /\ \A i \in DOMAIN inbox' : i + 1 \in DOMAIN inbox /\ i + 1 # 1 /\ inbox'[i] = inbox[i + 1]
  BY <1>1, <1>2, <1>3, ReceiveIs
<1>5. Arming' = Arming
  BY <1>3 DEF Arming
<1>6. NoConfig => NoConfig'
  BY <1>3, <1>4 DEF NoConfig
<1>7. Commanding' => Commanding \/ pc'["inbound"] \in {"pos_apply", "pos_first"}
  BY <1>3, <1>4 DEF Commanding
<1>8. CASE ConfigBegin
  <2>1. kind = "CONFIG" /\ ~init_timer' /\ pc'["inbound"] = "torque_begin"
    BY <1>0, <1>1, <1>4, <1>8 DEF ConfigBegin, Receive
  <2>2. init_timer /\ ~Commanding /\ cdc_connected
    BY <1>2, <1>4, <2>1 DEF OrderInv, NoConfig, Asking
  <2>3. inits = 0 /\ NoConfig'
    <3>1. inits \in Nat /\ ~(inits > 0)
      BY <1>2, <1>4, <2>1, BoundsAssumption DEF QueueInv, Typed, TypeOK, HostType
    <3>2. \A i \in DOMAIN inbox' : inbox'[i].kind # "CONFIG"
      BY <1>2, <1>4, <2>1 DEF QueueInv
    <3> QED BY <1>3, <3>1, <3>2 DEF NoConfig
  <2>4. OrderInv'
    BY <1>2, <1>3, <1>7, <2>1, <2>2, <2>3 DEF OrderInv
  <2>5. CommandInv'
    BY <1>2, <1>3, <1>5, <2>1 DEF CommandInv
  <2> QED BY <1>4, <2>4, <2>5 DEF SessionInv
<1>9. CASE PosBegin
  <2>1. kind = "POS" /\ UNCHANGED init_timer /\ Commanding
    BY <1>1, <1>4, <1>9 DEF PosBegin, Receive, Commanding
  <2>2. \/ pc'["inbound"] = "pos_apply" /\ msg' = inbox[1].body
        \/ pc' = pc
    BY <1>0, <1>4, <1>9 DEF PosBegin
  <2>3. ~Asking /\ pc'["inbound"] \notin ConfigPCs
    BY <1>2, <2>1, <2>2 DEF OrderInv, ConfigPCs
  <2>4. ~Asking'
    BY <1>3, <2>1, <2>3 DEF Asking
  <2>5. OrderInv'
    BY <1>2, <1>3, <1>6, <2>1, <2>3, <2>4 DEF OrderInv
  <2>6. inbox[1].body \in Frames
    BY <1>2, <1>4, <2>1 DEF QueueInv
  <2>7. CommandInv'
    BY <1>2, <1>3, <1>5, <2>2, <2>6 DEF CommandInv
  <2> QED BY <1>4, <2>5, <2>7 DEF SessionInv
<1>10. CASE EmergencyStop
  <2>1. pc'["inbound"] = "halted" /\ UNCHANGED init_timer
    BY <1>0, <1>10 DEF EmergencyStop
  <2>2. OrderInv'
    BY <1>2, <1>3, <1>6, <1>7, <2>1 DEF OrderInv, Asking, ConfigPCs
  <2>3. CommandInv'
    BY <1>2, <1>3, <1>5, <2>1 DEF CommandInv
  <2> QED BY <1>4, <2>2, <2>3 DEF SessionInv
<1> QED BY <1>8, <1>9, <1>10

LEMMA SessionInbound ==
  ASSUME Typed, CarriesOn, SessionInv, Singular, Inbound
  PROVE  SessionInv'
<1> USE DEF Tasks, Goto, flags, map, host
<1>0. pc \in [Tasks -> InboundPCs \union DxlPCs]
  BY DEF Typed, TypeOK, LocalsType
<1>1. ASSUME ConfigLightsBegin \/ ConfigLightsOff \/ ConfigClear \/ ConfigToken \/ ConfigRejected
             \/ ConfigAccepted
      PROVE  SessionInv'
  <2>1. /\ pc["inbound"] \in ConfigPCs /\ pc'["dxl"] = pc["dxl"]
        /\ UNCHANGED <<inbox, inits, val, has_first_frame_been_received, cdc_connected, link>>
    BY <1>0, <1>1 DEF ConfigLightsBegin, ConfigLightsOff, ConfigClear, ConfigToken, ConfigRejected,
       ConfigAccepted, ConfigPCs, InboundPCs
  <2>2. ~Commanding /\ ~init_timer /\ cdc_connected /\ link /\ NoConfig
    BY <2>1 DEF SessionInv, OrderInv, Asking
  <2>3. ~Arming /\ ~Arming' /\ ~has_first_frame_been_received'
    BY <2>1, <2>2 DEF SessionInv, CommandInv, Commanding, Arming
  <2>4. QueueInv' /\ NoConfig'
    BY <2>1, <2>2 DEF SessionInv, QueueInv, NoConfig
  <2>5. /\ \/ pc'["inbound"] \in ConfigPCs /\ UNCHANGED <<init_timer, host_ready>>
           \/ pc'["inbound"] = "receive" /\ UNCHANGED host_ready
           \/ pc'["inbound"] = "receive" /\ UNCHANGED init_timer
    BY <1>0, <1>1, <2>1 DEF ConfigLightsBegin, ConfigLightsOff, ConfigClear, ConfigToken, ConfigRejected,
       ConfigAccepted, ConfigPCs, InboundPCs
  <2>6. OrderInv'
    BY <2>1, <2>2, <2>4, <2>5 DEF OrderInv, Asking, Commanding, ConfigPCs
  <2>7. CommandInv'
    BY <2>3, <2>5 DEF CommandInv, ConfigPCs
  <2> QED BY <2>4, <2>6, <2>7 DEF SessionInv
<1>2. ASSUME PosApply \/ PosFirst
      PROVE  SessionInv'
  <2>1. /\ pc["inbound"] \in {"pos_apply", "pos_first"} /\ pc'["dxl"] = pc["dxl"]
        /\ pc'["inbound"] \in {"pos_first", "receive"}
        /\ UNCHANGED <<inbox, inits, val, init_timer, cdc_connected, link, host_ready>>
    BY <1>0, <1>2 DEF PosApply, PosFirst
  <2>2. QueueInv /\ OrderInv /\ CommandInv
    BY DEF SessionInv
  <2>3. ~Asking /\ ~Asking'
    BY <2>1, <2>2 DEF OrderInv, Commanding, Asking, ConfigPCs
  <2>4. QueueInv' /\ OrderInv'
    BY <2>1, <2>2, <2>3 DEF QueueInv, OrderInv, NoConfig, ConfigPCs
  <2>5. /\ has_first_frame_been_received \/ pc'["inbound"] = "pos_first" => commanded' # {}
        /\ has_first_frame_been_received => has_first_frame_been_received'
        /\ has_first_frame_been_received' => commanded' # {}
    <3>1. CASE PosApply
      <4>1. commanded \subseteq commanded' /\ UNCHANGED has_first_frame_been_received
        BY <3>1 DEF PosApply
      <4>2. has_first_frame_been_received => commanded' # {}
        BY <2>2, <4>1 DEF CommandInv
      <4>3. pc["inbound"] = "pos_apply" /\ msg \in Frames
        BY <2>2, <3>1 DEF PosApply, CommandInv
      <4>4. pc'["inbound"] = "pos_first" => msg.ok /\ commanded' = commanded \union msg.ids
        BY <1>0, <3>1 DEF PosApply
      <4> QED BY <4>1, <4>2, <4>3, <4>4 DEF Singular
    <3>2. CASE PosFirst
      BY <1>0, <2>2, <3>2 DEF PosFirst, CommandInv
    <3> QED BY <1>2, <3>1, <3>2
  <2>6. CommandInv'
    BY <2>1, <2>2, <2>5 DEF CommandInv, Arming
  <2> QED BY <2>4, <2>6 DEF SessionInv
<1> QED BY <1>1, <1>2, SessionMessages, SessionLoops DEF Inbound

LEMMA SessionTask ==
  ASSUME Typed, CarriesOn, SessionInv, DynamixelTask
  PROVE  SessionInv'
<1> USE DEF Tasks, Goto, flags, map, host
<1>0. pc \in [Tasks -> InboundPCs \union DxlPCs] /\ val \in [Tasks -> BOOLEAN]
  BY DEF Typed, TypeOK, LocalsType
<1>1. ASSUME TaskService \/ TaskTake \/ TaskGate \/ ReinitBegin \/ ReinitCheck
      PROVE  SessionInv'
  <2>1. /\ pc'["inbound"] = pc["inbound"]
        /\ UNCHANGED <<inbox, host, init_timer, has_first_frame_been_received, cdc_connected, msg,
                       commanded>>
    BY <1>0, <1>1 DEF TaskService, TaskTake, TaskGate, ReinitBegin, ReinitCheck
  <2>2. Arming' => has_first_frame_been_received
    BY <1>0, <1>1 DEF TaskService, TaskTake, TaskGate, ReinitBegin, ReinitCheck, Arming, CarriesOn,
       MayArm
  <2>3. QueueInv' /\ OrderInv'
    BY <2>1 DEF SessionInv, QueueInv, OrderInv, NoConfig, Asking, Commanding
  <2>4. CommandInv'
    BY <2>1, <2>2 DEF SessionInv, CommandInv
  <2> QED BY <2>3, <2>4 DEF SessionInv
<1> QED BY <1>1, SessionLoops DEF DynamixelTask

\* What the queue takes comes last, or is dropped.
LEMMA DeliverIs ==
  ASSUME Typed, NEW kind, NEW body, [kind |-> kind, body |-> body] \in Message, Deliver(kind, body)
  PROVE  \/ inbox' = inbox
         \/ /\ DOMAIN inbox' = DOMAIN inbox \cup {Len(inbox) + 1} /\ Len(inbox) + 1 \notin DOMAIN inbox
            /\ inbox'[Len(inbox) + 1].kind = kind /\ inbox'[Len(inbox) + 1].body = body
            /\ \A i \in DOMAIN inbox : inbox'[i] = inbox[i]
<1> DEFINE message == [kind |-> kind, body |-> body]
<1>1. inbox \in Seq(Message) /\ message \in Message /\ message.kind = kind /\ message.body = body
  BY DEF Typed, TypeOK, HostType
<1> HIDE DEF message
<1>2. inbox' = inbox \/ inbox' = Append(inbox, message)
  BY DEF Deliver, message
<1>3. /\ DOMAIN Append(inbox, message) = DOMAIN inbox \cup {Len(inbox) + 1}
      /\ Append(inbox, message)[Len(inbox) + 1] = message /\ Len(inbox) + 1 \notin DOMAIN inbox
      /\ \A i \in DOMAIN inbox : Append(inbox, message)[i] = inbox[i]
  BY ONLY <1>1
<1> QED BY <1>1, <1>2, <1>3

LEMMA NothingOutstanding ==
  ASSUME Typed, Outstanding < 1
  PROVE  \A i \in DOMAIN inbox : inbox[i].kind # "CONFIG"
<1> DEFINE C == {i \in DOMAIN inbox : inbox[i].kind = "CONFIG"}
<1>1. IsFiniteSet(C)
  <2>1. DOMAIN inbox = 1..Len(inbox) /\ Len(inbox) \in Nat
    BY DEF Typed, TypeOK, HostType
  <2>2. IsFiniteSet(1..Len(inbox))
    BY <2>1, FS_Interval
  <2> QED BY <2>1, <2>2, FS_Subset
<1>2. Outstanding = inits + Cardinality(C) /\ inits \in Nat
  BY OutstandingType DEF Outstanding
<1>3. Cardinality(C) \in Nat
  BY <1>1, FS_CardinalityType
<1> HIDE DEF C
<1>4. Cardinality(C) = 0
  BY <1>2, <1>3
<1>5. C = {}
  BY <1>1, <1>4, FS_EmptySet
<1> QED BY <1>5 DEF C

LEMMA SessionHost ==
  ASSUME Typed, SessionInv, Singular, HostConfig \/ HostPos \/ HostEmergencyStop \/ SendInit
  PROVE  SessionInv'
<1> USE DEF flags, map, locals, host
<1>1. QueueInv /\ OrderInv /\ CommandInv /\ inits \in {0, 1}
  BY DEF SessionInv, Typed, TypeOK, HostType, Singular
<1>2. UNCHANGED <<flags, map, locals, link, cdc_connected>>
  BY DEF HostConfig, HostPos, HostEmergencyStop, SendInit
<1>3. CommandInv'
  BY <1>1, <1>2 DEF CommandInv, Arming
<1>4. CASE HostConfig
  <2>1. inits = 1 /\ inits' = 0 /\ ~host_ready'
    BY <1>1, <1>4 DEF HostConfig
  <2>2. init_timer /\ ~Commanding
    BY <1>1, <2>1 DEF OrderInv, NoConfig, Asking
  <2>3. PICK body \in Configs : Deliver("CONFIG", body)
    BY <1>4 DEF HostConfig
  <2>4. [kind |-> "CONFIG", body |-> body] \in Message
    BY <2>3, PayloadAssumption DEF Message
  <2>5. \A i \in DOMAIN inbox : inbox[i].kind # "CONFIG" /\ inbox[i].kind # "POS"
    BY <1>1, <2>1, <2>2 DEF QueueInv, Commanding
  <2>6. \A i \in DOMAIN inbox' : inbox'[i].kind # "POS" /\ (inbox'[i].kind = "CONFIG" => i = Len(inbox) + 1)
    BY <2>3, <2>4, <2>5, DeliverIs
  <2>7. QueueInv'
    BY <2>1, <2>6 DEF QueueInv
  <2>8. OrderInv'
    BY <1>1, <1>2, <2>1, <2>2, <2>6 DEF OrderInv, Asking, Commanding, NoConfig
  <2> QED BY <1>3, <2>7, <2>8 DEF SessionInv
<1>5. CASE HostPos
  <2>1. host_ready /\ UNCHANGED <<inits, host_ready>>
    BY <1>5 DEF HostPos
  <2>2. PICK body \in Frames : Deliver("POS", body)
    BY <1>5 DEF HostPos
  <2>3. [kind |-> "POS", body |-> body] \in Message
    BY <2>2, PayloadAssumption DEF Message
  <2>4. \A i \in DOMAIN inbox' : \/ i \in DOMAIN inbox /\ inbox'[i] = inbox[i]
                                 \/ inbox'[i].kind = "POS" /\ inbox'[i].body \in Frames
    BY <2>2, <2>3, DeliverIs
  <2>5. ~Asking /\ ~Asking'
    BY <1>1, <1>2, <2>1 DEF OrderInv, Commanding, Asking
  <2>6. QueueInv' /\ (NoConfig => NoConfig')
    BY <1>1, <2>1, <2>4 DEF QueueInv, NoConfig
  <2>7. OrderInv'
    BY <1>1, <1>2, <2>5, <2>6 DEF OrderInv
  <2> QED BY <1>3, <2>6, <2>7 DEF SessionInv
<1>6. CASE HostEmergencyStop
  <2>1. UNCHANGED <<inits, host_ready>> /\ Deliver("ESTOP", None)
    BY <1>6 DEF HostEmergencyStop
  <2>2. [kind |-> "ESTOP", body |-> None] \in Message
    BY DEF Message, None, Payload
  <2>3. \A i \in DOMAIN inbox' : (i \in DOMAIN inbox /\ inbox'[i] = inbox[i]) \/ inbox'[i].kind = "ESTOP"
    BY <2>1, <2>2, DeliverIs
  <2>4. QueueInv' /\ (NoConfig => NoConfig')
    BY <1>1, <2>1, <2>3 DEF QueueInv, NoConfig
  <2>5. (Commanding' => Commanding) /\ Asking' = Asking
    BY <1>2, <2>1, <2>3 DEF Commanding, Asking
  <2>6. OrderInv'
    BY <1>1, <1>2, <2>4, <2>5 DEF OrderInv
  <2> QED BY <1>3, <2>4, <2>6 DEF SessionInv
<1>7. CASE SendInit
  <2>1. init_timer /\ Outstanding < 1 /\ UNCHANGED <<inbox, host_ready>> /\ inits' = inits + 1
    BY <1>7 DEF SendInit, Singular
  <2>2. \A i \in DOMAIN inbox : inbox[i].kind # "CONFIG"
    BY <2>1, NothingOutstanding
  <2>3. QueueInv'
    BY <1>1, <2>1, <2>2 DEF QueueInv
  <2>4. OrderInv'
    BY <1>1, <1>2, <2>1 DEF OrderInv, Asking, Commanding
  <2> QED BY <1>3, <2>3, <2>4 DEF SessionInv
<1> QED BY <1>4, <1>5, <1>6, <1>7

LEMMA SessionOthers ==
  ASSUME Typed, SessionInv, Singular,
         UsbPoll \/ ResetRequest \/ SampleRail \/ Unplug \/ Plug \/ PowerCut \/ PowerReturn
  PROVE  SessionInv'
<1> USE DEF flags, map, locals, host
<1>1. ~ResetRequest /\ ~Unplug
  BY DEF ResetRequest, Unplug, Singular
<1>2. QueueInv /\ OrderInv /\ CommandInv
  BY DEF SessionInv
<1>3. CASE UsbPoll
  <2>1. /\ link /\ ~cdc_connected /\ cdc_connected' /\ init_timer'
        /\ UNCHANGED <<locals, map, inbox, host, has_first_frame_been_received>>
    BY <1>2, <1>3 DEF UsbPoll, controller_connected, OrderInv
  <2>2. ~Commanding /\ pc["inbound"] \notin ConfigPCs
    BY <1>2, <2>1 DEF OrderInv, Asking
  <2>3. QueueInv' /\ CommandInv'
    BY <1>2, <2>1 DEF QueueInv, CommandInv, Arming
  <2>4. OrderInv'
    BY <1>2, <2>1, <2>2 DEF OrderInv, Commanding
  <2> QED BY <2>3, <2>4 DEF SessionInv
<1>4. CASE SampleRail \/ Plug \/ PowerCut \/ PowerReturn
  <2>1. /\ UNCHANGED <<init_timer, has_first_frame_been_received, map, locals, inbox, inits, host_ready,
                       cdc_connected>>
        /\ link => link'
    BY <1>4 DEF SampleRail, Plug, PowerCut, PowerReturn
  <2>2. QueueInv' /\ CommandInv'
    BY <1>2, <2>1 DEF QueueInv, CommandInv, Arming
  <2>3. OrderInv'
    BY <1>2, <2>1 DEF OrderInv, Asking, Commanding, NoConfig
  <2> QED BY <2>2, <2>3 DEF SessionInv
<1> QED BY <1>1, <1>3, <1>4

LEMMA SessionStep == ASSUME Typed, CarriesOn, SessionInv, Singular, [Next]_vars PROVE SessionInv'
<1>1. CASE UNCHANGED vars
  BY <1>1 DEF vars, flags, map, locals, host, SessionInv, QueueInv, OrderInv, CommandInv, NoConfig,
     Asking, Commanding, Arming
<1> QED BY <1>1, SessionInbound, SessionTask, SessionHost, SessionOthers DEF Next, Daemon, Environment

\* No servo gains torque before the controller has commanded a position to the servos of the
\* map in force (the checks that end dynamixel_reinitialize_all): where the cable stays, the
\* reset pin is not used, the host answers an INIT before the next, and a well-formed frame
\* names a servo.
THEOREM ArmsAfterCommand ==
  ASSUME Unplugs = "none", ResetPin = FALSE, MaxInits = 1,
         \A frame \in Frames : frame.ok => frame.ids # {}
  PROVE  Spec => ArmedAfterCommand
<1>1. Singular
  BY DEF Singular
<1>2. Typed /\ CarriesOn /\ SessionInv /\ [Next]_vars => [torque' \subseteq torque \/ commanded # {}]_vars
  BY OnlyArmingEnergises DEF SessionInv, CommandInv
<1>3. Typed /\ CarriesOn /\ SessionInv /\ [Next]_vars => SessionInv'
  BY <1>1, SessionStep
<1> QED BY AlwaysTyped, AlwaysCarriesOn, SessionInit, <1>2, <1>3, PTL DEF Spec, ArmedAfterCommand
-----------------------------------------------------------------------------
(* One map at a time                                                         *)

Waiting == \E i \in DOMAIN inbox : inbox[i].kind = "CONFIG"

\* A CONFIG is waited for, or read, only while the control sequence is idle.
Apart == pc["inbound"] # "halted" /\ (Waiting \/ Configuring) => ~Controlling

LEMMA ApartInit == Init => Apart
BY DEF Init, Apart, Controlling, Tasks

\* The loops of both tasks
LEMMA ApartLoops ==
  ASSUME Typed, CarriesOn, Apart, NEW t \in Tasks,
         TorqueBegin(t) \/ TorqueWrite(t) \/ TorqueDone(t) \/ VelocityWrite(t) \/ StatusLight(t)
  PROVE  Apart'
<1> USE DEF Tasks, Goto
<1>0. /\ pc \in [Tasks -> InboundPCs \union DxlPCs] /\ val \in [Tasks -> BOOLEAN]
      /\ pc["inbound"] \in InboundPCs /\ pc["dxl"] \in DxlPCs
  BY DEF Typed, TypeOK, LocalsType
<1>1. inbox' = inbox
  BY DEF TorqueBegin, TorqueWrite, TorqueDone, VelocityWrite, StatusLight
<1>2. /\ Configuring' => Configuring
      /\ Controlling' => Controlling
      /\ pc["inbound"] = "halted" => pc'["inbound"] = "halted"
  <2> USE DEF Configuring, Controlling, CarriesOn
  <2>1. CASE TorqueBegin(t)
    BY <1>0, <2>1 DEF TorqueBegin
  <2>2. CASE TorqueWrite(t)
    BY <1>0, <2>2 DEF TorqueWrite
  <2>3. CASE TorqueDone(t)
    BY <1>0, <2>3 DEF TorqueDone
  <2>4. CASE VelocityWrite(t)
    BY <1>0, <2>4 DEF VelocityWrite
  <2>5. CASE StatusLight(t)
    BY <1>0, <2>5 DEF StatusLight, InboundPCs, DxlPCs
  <2> QED BY <2>1, <2>2, <2>3, <2>4, <2>5
<1> QED BY <1>1, <1>2 DEF Apart, Waiting

LEMMA ApartInbound == ASSUME Typed, CarriesOn, Apart, Inbound PROVE Apart'
<1> USE DEF Tasks, Goto
<1>0. pc \in [Tasks -> InboundPCs \union DxlPCs] /\ inbox \in Seq(Message)
  BY DEF Typed, TypeOK, LocalsType, HostType
<1>1. ASSUME ConfigBegin \/ PosBegin \/ EmergencyStop PROVE Apart'
  <2>1. inbox # <<>> /\ inbox' = Tail(inbox) /\ UNCHANGED val /\ pc'["dxl"] = pc["dxl"]
    BY <1>0, <1>1 DEF ConfigBegin, PosBegin, EmergencyStop, Receive
  <2>2. \A i \in DOMAIN inbox' : i + 1 \in DOMAIN inbox /\ inbox'[i] = inbox[i + 1]
    BY <1>0, <2>1
  <2>3. Waiting' => Waiting
    BY <2>2 DEF Waiting
  <2>4. Controlling' = Controlling
    BY <2>1 DEF Controlling
  <2>5. CASE ConfigBegin
    <3>1. 1 \in DOMAIN inbox /\ inbox[1] = Head(inbox)
      BY <1>0, <2>1
    <3>2. Waiting /\ pc["inbound"] = "receive"
      BY <2>5, <3>1 DEF ConfigBegin, Receive, Waiting
    <3> QED BY <2>4, <3>2 DEF Apart
  <2>6. CASE PosBegin \/ EmergencyStop
    <3>1. pc["inbound"] = "receive" /\ pc'["inbound"] \in {"receive", "pos_apply", "halted"}
      BY <1>0, <2>6 DEF PosBegin, EmergencyStop, Receive
    <3> QED BY <2>3, <2>4, <3>1 DEF Apart, Configuring
  <2> QED BY <1>1, <2>5, <2>6
<1>2. ASSUME \/ ConfigLightsBegin \/ ConfigLightsOff \/ ConfigClear \/ ConfigToken
             \/ ConfigRejected \/ ConfigAccepted
      PROVE  Apart'
  <2>1. /\ Configuring /\ pc["inbound"] # "halted"
        /\ pc'["dxl"] = pc["dxl"] /\ UNCHANGED val
    BY <1>0, <1>2 DEF ConfigLightsBegin, ConfigLightsOff, ConfigClear, ConfigToken, ConfigRejected,
       ConfigAccepted, Configuring
  <2> QED BY <2>1 DEF Apart, Controlling
<1>3. ASSUME PosApply \/ PosFirst PROVE Apart'
  <2>1. /\ pc["inbound"] \in {"pos_apply", "pos_first"} /\ pc'["inbound"] \in {"receive", "pos_first"}
        /\ pc'["dxl"] = pc["dxl"] /\ UNCHANGED <<val, inbox>>
    BY <1>0, <1>3 DEF PosApply, PosFirst
  <2> QED BY <2>1 DEF Apart, Controlling, Configuring, Waiting
<1> QED BY <1>1, <1>2, <1>3, ApartLoops DEF Inbound

\* The gate opens with no CONFIG in hand and, as it has the processor, with none waiting.
LEMMA ApartTask == ASSUME Typed, CarriesOn, Apart, ~Overlaps, DynamixelTask PROVE Apart'
<1> USE DEF Tasks, Goto
<1>0. pc \in [Tasks -> InboundPCs \union DxlPCs] /\ val \in [Tasks -> BOOLEAN]
  BY DEF Typed, TypeOK, LocalsType
<1>1. CASE TaskGate
  <2>1. UNCHANGED <<val, inbox>> /\ pc'["inbound"] = pc["inbound"] /\ InboundBlocked
        /\ pc'["dxl"] \in {"service", "reinit_begin"}
    BY <1>0, <1>1 DEF TaskGate, MayRun
  <2>2. pc'["dxl"] = "reinit_begin" => ~Configuring
    BY <1>0, <1>1 DEF TaskGate
  <2>3. pc["inbound"] # "halted" /\ ~Configuring => ~Waiting
    BY <2>1 DEF InboundBlocked, Configuring, Waiting
  <2>4. Waiting' = Waiting /\ Configuring' = Configuring
    BY <2>1 DEF Waiting, Configuring
  <2>5. pc'["dxl"] = "service" => ~Controlling'
    BY DEF Controlling
  <2> QED BY <2>1, <2>2, <2>3, <2>4, <2>5 DEF Apart
<1>2. ASSUME TaskService \/ TaskTake \/ ReinitBegin \/ ReinitCheck PROVE Apart'
  <2>1. inbox' = inbox /\ pc'["inbound"] = pc["inbound"]
    BY <1>0, <1>2 DEF TaskService, TaskTake, ReinitBegin, ReinitCheck
  <2>2. Controlling' => Controlling
    BY <1>0, <1>2 DEF TaskService, TaskTake, ReinitBegin, ReinitCheck, Controlling, CarriesOn
  <2> QED BY <2>1, <2>2 DEF Apart, Waiting, Configuring
<1> QED BY <1>1, <1>2, ApartLoops DEF DynamixelTask

LEMMA ApartOthers ==
  ASSUME Typed, Apart, ~Overlaps, UsbPoll \/ Daemon \/ Environment \/ UNCHANGED vars
  PROVE  Apart'
<1> USE DEF locals
<1>1. Controlling' = Controlling /\ Configuring' = Configuring /\ UNCHANGED pc
  BY DEF UsbPoll, Daemon, Environment, SendInit, ResetRequest, SampleRail, HostConfig, HostPos,
     HostEmergencyStop, Unplug, Plug, PowerCut, PowerReturn, vars, Controlling, Configuring
<1>2. CASE HostConfig
  BY <1>1, <1>2 DEF HostConfig, Apart
<1>3. CASE HostPos
  <2>1. PICK body \in Frames : Deliver("POS", body)
    BY <1>3 DEF HostPos
  <2>2. [kind |-> "POS", body |-> body] \in Message
    BY <2>1, PayloadAssumption DEF Message
  <2>3. Waiting' => Waiting
    BY <2>1, <2>2, DeliverIs DEF Waiting
  <2> QED BY <1>1, <2>3 DEF Apart
<1>4. CASE HostEmergencyStop
  <2>1. [kind |-> "ESTOP", body |-> None] \in Message /\ Deliver("ESTOP", None)
    BY <1>4 DEF Message, None, Payload, HostEmergencyStop
  <2>2. Waiting' => Waiting
    BY <2>1, DeliverIs DEF Waiting
  <2> QED BY <1>1, <2>2 DEF Apart
<1>5. ASSUME ~HostConfig, ~HostPos, ~HostEmergencyStop PROVE Apart'
  <2>1. inbox' = inbox
    BY <1>5 DEF UsbPoll, Daemon, Environment, SendInit, ResetRequest, SampleRail, Unplug, Plug,
       PowerCut, PowerReturn, vars
  <2> QED BY <1>1, <2>1 DEF Apart, Waiting
<1> QED BY <1>2, <1>3, <1>4, <1>5

THEOREM AlwaysApart == ASSUME ~Overlaps PROVE Spec => []Apart
<1>1. Typed /\ CarriesOn /\ Apart /\ [Next]_vars => Apart'
  BY ApartInbound, ApartTask, ApartOthers DEF Next
<1> QED BY ApartInit, AlwaysTyped, AlwaysCarriesOn, <1>1, PTL DEF Spec

\* What both tasks believe of the map in force is true of the servos, and each works on the
\* entries that are in it.
Accord ==
  /\ confirmed \subseteq AtProfile
  /\ val["inbound"] => Pick(todo["inbound"]) \in AtProfile
  /\ val["dxl"] /\ pc["dxl"] = "reinit_led" => Pick(todo["dxl"]) \in AtProfile
  /\ val["dxl"] /\ pc["dxl"] = "torque" => snap["dxl"] \subseteq AtProfile
  /\ pc["dxl"] \in {"velocity", "reinit_led"} =>
       \A s \in todo["dxl"] : s \in motors /\ plan[s] = profile[s]
  /\ pc["inbound"] = "token" => todo["inbound"] \intersect motors = {}
  /\ pc["inbound"] \in {"velocity", "token_led"} =>
       todo["inbound"] \intersect motors = {Pick(todo["inbound"])}

LEMMA AccordInit == Init => Accord
BY DEF Init, Accord, Tasks

LEMMA AccordLoops ==
  ASSUME Typed, CarriesOn, Accord, NEW t \in Tasks,
         TorqueBegin(t) \/ TorqueWrite(t) \/ TorqueDone(t) \/ VelocityWrite(t) \/ StatusLight(t)
  PROVE  Accord'
<1> USE DEF Accord, CarriesOn, Goto
<1>0. /\ pc \in [Tasks -> InboundPCs \union DxlPCs]
      /\ pc["inbound"] \in InboundPCs /\ pc["dxl"] \in DxlPCs
      /\ todo \in [Tasks -> SUBSET Servos]
      /\ snap \in [Tasks -> SUBSET Servos]
      /\ val \in [Tasks -> BOOLEAN]
  BY DEF Typed, TypeOK, LocalsType
<1>00. velocity \in Profile /\ motors \subseteq Servos
  BY DEF Typed, TypeOK, ServosType, MapType
<1>1. CASE TorqueBegin(t)
  <2>1. AtProfile' = AtProfile /\ UNCHANGED <<motors, confirmed, profile, plan, val>>
    BY <1>1 DEF TorqueBegin, map, regs, AtProfile
  <2>2. CASE t = "inbound"
    <3>1. /\ pc'["inbound"] \in {"torque", "torque_done"} /\ ~val["inbound"]
          /\ pc'["dxl"] = pc["dxl"] /\ todo'["dxl"] = todo["dxl"] /\ snap'["dxl"] = snap["dxl"]
      BY <1>0, <1>1, <2>2 DEF TorqueBegin, Tasks
    <3> QED BY <2>1, <3>1
  <2>3. CASE t = "dxl"
    <3>1. /\ pc'["dxl"] \in {"torque", "torque_done"}
          /\ pc'["dxl"] = "torque" => snap'["dxl"] = confirmed
          /\ pc'["inbound"] = pc["inbound"] /\ todo'["inbound"] = todo["inbound"]
      BY <1>0, <1>1, <2>3 DEF TorqueBegin, Tasks
    <3> QED BY <2>1, <3>1
  <2> QED BY <2>2, <2>3 DEF Tasks
<1>2. CASE TorqueWrite(t)
  <2> DEFINE s == Pick(todo[t])
             on == val[t] /\ s \in snap[t]
  <2>1. PICK result \in Results :
          /\ dynamixel_apply_register(t, "torque", s, on, result)
          /\ Advance(t, s, result)
          /\ Goto(t, IF result # "retry" /\ todo[t] = {s} THEN "torque_done" ELSE "torque")
    BY <1>2 DEF TorqueWrite
  <2>2. velocity' = velocity
    BY <2>1, WriteEffect
  <2>3. AtProfile' = AtProfile /\ UNCHANGED <<confirmed, snap, motors, profile, plan, val>>
    BY <1>2, <2>2 DEF TorqueWrite, map, AtProfile
  <2>4. \A u \in Tasks : /\ u # t => pc'[u] = pc[u] /\ todo'[u] = todo[u]
                         /\ u = t => pc[u] = "torque" /\ pc'[u] \in {"torque", "torque_done"}
    BY <1>0, <1>2, <2>1 DEF Advance, TorqueWrite
  <2> QED BY <2>3, <2>4 DEF Tasks
<1>3. CASE TorqueDone(t)
  <2>1. AtProfile' = AtProfile /\ UNCHANGED <<motors, confirmed, profile, plan, todo>>
    BY <1>3 DEF TorqueDone, map, regs, AtProfile
  <2>2. \A u \in Tasks : /\ u # t => pc'[u] = pc[u] /\ val'[u] = val[u] /\ snap'[u] = snap[u]
                         /\ u = t => pc'[u] \in {"led_begin", "service", "gate"} /\ ~val'[u]
    BY <1>0, <1>3 DEF TorqueDone
  <2> QED BY <2>1, <2>2 DEF Tasks
<1>4. CASE VelocityWrite(t)
  <2> DEFINE s == Pick(todo[t])
  <2>1. PICK result \in Results :
          /\ dynamixel_apply_register(t, "velocity", s, Wanted(t, s), result)
          /\ IF result = "retry"
               THEN UNCHANGED <<confirmed, val, pc>>
               ELSE /\ dynamixel_mark_velocity_confirmed(s, result = "ok")
                    /\ val' = [val EXCEPT ![t] = result = "ok"]
                    /\ Goto(t, IF t = "inbound" THEN "token_led" ELSE "reinit_led")
    BY <1>4 DEF VelocityWrite
  <2>2. s \in todo[t] /\ s \in Servos /\ pc[t] = "velocity"
    BY <1>0, <1>4, PickIn DEF VelocityWrite, Typed, LoopsHaveWork
  <2>3. s \in motors /\ Wanted(t, s) = profile[s]
    BY <2>2 DEF Wanted, Tasks
  <2>4. /\ velocity' \in {velocity, [velocity EXCEPT ![s] = profile[s]]}
        /\ result = "ok" => velocity' = [velocity EXCEPT ![s] = profile[s]]
    BY <2>1, <2>3, WriteEffect DEF WriteRegister
  <2>5. UNCHANGED <<todo, snap, motors, profile, plan>>
    BY <1>4 DEF VelocityWrite
  <2>6. AtProfile \subseteq AtProfile' /\ (result = "ok" => s \in AtProfile')
    BY <1>00, <2>2, <2>3, <2>4, <2>5 DEF AtProfile, Profile
  <2>7. confirmed' \subseteq AtProfile'
    BY <2>1, <2>6 DEF dynamixel_mark_velocity_confirmed, Put
  <2>8. \A u \in Tasks : u # t => pc'[u] = pc[u] /\ val'[u] = val[u]
    BY <1>0, <2>1
  <2>9. \/ pc'[t] = "velocity" /\ val'[t] = val[t] /\ ~val[t]
        \/ pc'[t] = IF t = "inbound" THEN "token_led" ELSE "reinit_led"
    BY <1>0, <2>1, <2>2 DEF Tasks
  <2>10. val'[t] => s \in AtProfile'
    BY <1>0, <2>1, <2>2, <2>6 DEF Tasks
  <2> QED BY <2>2, <2>5, <2>6, <2>7, <2>8, <2>9, <2>10 DEF Tasks
<1>5. CASE StatusLight(t)
  <2> DEFINE s == Pick(todo[t])
  <2>1. PICK result \in Results :
          /\ dynamixel_apply_register(t, "led", s, val[t], result)
          /\ Advance(t, s, result)
          /\ IF result = "retry"
               THEN UNCHANGED <<val, pc>>
               ELSE /\ val' = [val EXCEPT ![t] = FALSE]
                    /\ Goto(t, IF t = "inbound" THEN "token"
                               ELSE IF todo[t] = {s} THEN "reinit_check" ELSE "velocity")
    BY <1>5 DEF StatusLight
  <2>2. velocity' = velocity
    BY <2>1, WriteEffect
  <2>3. AtProfile' = AtProfile /\ UNCHANGED <<confirmed, snap, motors, profile, plan>>
    BY <1>5, <2>2 DEF StatusLight, map, AtProfile
  <2>4. \A u \in Tasks : u # t => pc'[u] = pc[u] /\ val'[u] = val[u] /\ todo'[u] = todo[u]
    BY <1>0, <2>1 DEF Advance
  <2>5. pc[t] \in {"token_led", "reinit_led"}
    BY <1>5 DEF StatusLight
  <2>6. CASE result = "retry"
    BY <2>1, <2>3, <2>6 DEF Advance
  <2>7. CASE result # "retry"
    <3>1. /\ ~val'[t] /\ todo'[t] = todo[t] \ {s}
          /\ pc'[t] = IF t = "inbound" THEN "token"
                      ELSE IF todo[t] = {s} THEN "reinit_check" ELSE "velocity"
      BY <1>0, <2>1, <2>7 DEF Advance
    <3>2. CASE t = "inbound"
      <4>1. pc["inbound"] = "token_led"
        BY <1>0, <2>5, <3>2 DEF InboundPCs
      <4>2. todo'["inbound"] \intersect motors = {}
        BY <3>1, <3>2, <4>1
      <4> QED BY <2>3, <2>4, <3>1, <3>2, <4>2 DEF Tasks
    <3>3. CASE t = "dxl"
      <4>1. pc["dxl"] = "reinit_led"
        BY <1>0, <2>5, <3>3 DEF DxlPCs
      <4> QED BY <2>3, <2>4, <3>1, <3>3, <4>1 DEF Tasks
    <3> QED BY <3>2, <3>3 DEF Tasks
  <2> QED BY <2>6, <2>7
<1> QED BY <1>1, <1>2, <1>3, <1>4, <1>5

LEMMA AccordInbound == ASSUME Typed, CarriesOn, Apart, Accord, Inbound PROVE Accord'
<1> USE DEF Accord, CarriesOn, Tasks, Goto
<1>0. /\ pc \in [Tasks -> InboundPCs \union DxlPCs]
      /\ todo \in [Tasks -> SUBSET Servos]
      /\ confirmed \subseteq motors /\ motors \subseteq Servos /\ profile \in Profile
  BY DEF Typed, TypeOK, LocalsType, MapType
<1>1. ASSUME \/ ConfigBegin \/ PosBegin \/ EmergencyStop \/ ConfigLightsBegin \/ ConfigLightsOff
             \/ ConfigRejected \/ ConfigAccepted \/ PosApply \/ PosFirst
      PROVE  Accord'
  <2>1. /\ UNCHANGED <<motors, profile, confirmed, val, snap, plan>>
        /\ pc["inbound"] # "token_led" /\ pc'["dxl"] = pc["dxl"]
        /\ pc'["inbound"] \notin {"token", "velocity", "token_led"}
    BY <1>0, <1>1 DEF ConfigBegin, PosBegin, EmergencyStop, ConfigLightsBegin, ConfigLightsOff,
       ConfigRejected, ConfigAccepted, PosApply, PosFirst, Receive, map
  <2>2. todo'["dxl"] = todo["dxl"]
    BY <1>0, <1>1 DEF ConfigBegin, PosBegin, EmergencyStop, ConfigLightsBegin, ConfigLightsOff,
       ConfigRejected, ConfigAccepted, PosApply, PosFirst, Advance
  <2>3. velocity' = velocity
    <3>1. CASE ConfigLightsOff
      <4>1. \E result : dynamixel_apply_register("inbound", "led", Pick(todo["inbound"]), FALSE, result)
        BY <3>1 DEF ConfigLightsOff
      <4> QED BY <4>1, WriteEffect
    <3> QED BY <1>1, <3>1 DEF ConfigBegin, PosBegin, EmergencyStop, ConfigLightsBegin,
          ConfigRejected, ConfigAccepted, PosApply, PosFirst, regs
  <2>4. AtProfile' = AtProfile
    BY <2>1, <2>3 DEF AtProfile
  <2> QED BY <2>1, <2>2, <2>4
<1>2. ASSUME ConfigClear \/ ConfigToken
      PROVE  /\ pc'["dxl"] = pc["dxl"] /\ UNCHANGED <<val, velocity>> /\ ~val["inbound"]
             /\ pc["dxl"] \notin {"velocity", "reinit_led"}
             /\ ~(val["dxl"] /\ pc["dxl"] = "torque")
  <2>1. Configuring /\ pc["inbound"] # "halted"
    BY <1>2 DEF ConfigClear, ConfigToken, Configuring
  <2>2. ~Controlling
    BY <2>1 DEF Apart
  <2> QED BY <1>0, <1>2, <2>2 DEF ConfigClear, ConfigToken, Controlling, regs
<1>3. CASE ConfigClear
  <2>1. motors' = {} /\ confirmed' = {} /\ pc'["inbound"] = "token"
    BY <1>0, <1>3 DEF ConfigClear
  <2> QED BY <1>2, <1>3, <2>1
<1>4. CASE ConfigToken
  <2> DEFINE s == Pick(todo["inbound"])
  <2>1. s \in todo["inbound"] /\ s \in Servos /\ pc["inbound"] = "token"
    BY <1>0, <1>4, PickIn DEF ConfigToken
  <2>2. s \notin motors
    BY <2>1
  <2>3. PICK v \in Velocities : profile' = [profile EXCEPT ![s] = v]
    BY <1>4 DEF ConfigToken
  <2>4. motors' = motors \union {s} /\ UNCHANGED confirmed
    BY <1>4 DEF ConfigToken
  <2>5. \A u \in motors : u # s /\ profile'[u] = profile[u]
    BY <1>0, <2>2, <2>3 DEF Profile
  <2>6. confirmed' \subseteq AtProfile'
    BY <1>2, <1>4, <2>4, <2>5 DEF AtProfile
  <2>7. \/ pc'["inbound"] = "velocity" /\ todo' = todo
        \/ pc'["inbound"] = "token" /\ todo'["inbound"] = todo["inbound"] \ {s}
    BY <1>0, <1>4, <2>1 DEF ConfigToken
  <2>8. CASE pc'["inbound"] = "velocity" /\ todo' = todo
    <3>1. todo'["inbound"] \intersect motors' = {Pick(todo'["inbound"])}
      BY <2>1, <2>4, <2>8
    <3> QED BY <1>2, <1>4, <2>6, <2>8, <3>1
  <2>9. CASE pc'["inbound"] = "token" /\ todo'["inbound"] = todo["inbound"] \ {s}
    <3>1. todo'["inbound"] \intersect motors' = {}
      BY <2>1, <2>4, <2>9
    <3> QED BY <1>2, <1>4, <2>6, <2>9, <3>1
  <2> QED BY <2>7, <2>8, <2>9
<1> QED BY <1>1, <1>3, <1>4, AccordLoops DEF Inbound

LEMMA AccordTask == ASSUME Typed, CarriesOn, Accord, DynamixelTask PROVE Accord'
<1> USE DEF Accord, CarriesOn, Tasks, Goto, flags, map, supply, regs
<1>0. /\ pc \in [Tasks -> InboundPCs \union DxlPCs]
      /\ todo \in [Tasks -> SUBSET Servos]
      /\ val \in [Tasks -> BOOLEAN]
  BY DEF Typed, TypeOK, LocalsType
<1>1. CASE TaskService \/ TaskTake \/ TaskGate
  BY <1>0, <1>1 DEF TaskService, TaskTake, TaskGate, AtProfile
<1>2. CASE ReinitBegin
  BY <1>0, <1>2 DEF ReinitBegin, AtProfile
<1>3. CASE ReinitCheck
  BY <1>0, <1>3 DEF ReinitCheck, AtProfile
<1> QED BY <1>1, <1>2, <1>3, AccordLoops DEF DynamixelTask

LEMMA AccordOthers ==
  ASSUME PowerCuts = "none", Accord, UsbPoll \/ Daemon \/ Environment \/ UNCHANGED vars
  PROVE  Accord'
BY DEF Accord, AtProfile, UsbPoll, Daemon, Environment, SendInit, ResetRequest, SampleRail,
       HostConfig, HostPos, HostEmergencyStop, Unplug, Plug, PowerCut, PowerReturn,
       vars, map, locals, regs

THEOREM AlwaysInAccord == ASSUME PowerCuts = "none", ~Overlaps PROVE Spec => []Accord
<1>1. Typed /\ CarriesOn /\ Apart /\ Accord /\ [Next]_vars => Accord'
  BY AccordInbound, AccordTask, AccordOthers DEF Next
<1> QED BY AccordInit, AlwaysTyped, AlwaysCarriesOn, AlwaysApart, <1>1, PTL DEF Spec

\* What a step may do to the lights and to the torque of servos
LEMMA AccordIsKept ==
  ASSUME Typed, CarriesOn, Accord, [Next]_vars
  PROVE  /\ led' \subseteq led \union AtProfile
         /\ torque' \subseteq torque \union AtProfile
<1> USE DEF Tasks, flags, map, supply, regs
<1>0. /\ pc["inbound"] \in InboundPCs /\ pc["dxl"] \in DxlPCs
  BY DEF Typed, TypeOK, LocalsType
<1>1. ASSUME NEW t \in Tasks, TorqueWrite(t)
      PROVE  led' = led /\ torque' \subseteq torque \union AtProfile
  <2> DEFINE s == Pick(todo[t])
             on == val[t] /\ s \in snap[t]
  <2>1. PICK result \in Results : dynamixel_apply_register(t, "torque", s, on, result)
    BY <1>1 DEF TorqueWrite
  <2>2. led' = led /\ torque' \in {torque, Put(torque, s, on)}
    BY <2>1, WriteEffect
  <2>3. pc[t] = "torque"
    BY <1>1 DEF TorqueWrite
  <2>4. on => s \in AtProfile
    BY <2>3 DEF Accord, CarriesOn
  <2> QED BY <2>2, <2>4 DEF Put
<1>2. ASSUME NEW t \in Tasks, VelocityWrite(t) PROVE torque' = torque /\ led' = led
  <2>1. \E result : dynamixel_apply_register(t, "velocity", Pick(todo[t]), Wanted(t, Pick(todo[t])), result)
    BY <1>2 DEF VelocityWrite
  <2> QED BY <2>1, WriteEffect
<1>3. ASSUME NEW t \in Tasks, StatusLight(t)
      PROVE  torque' = torque /\ led' \subseteq led \union AtProfile
  <2> DEFINE s == Pick(todo[t])
  <2>1. PICK result \in Results : dynamixel_apply_register(t, "led", s, val[t], result)
    BY <1>3 DEF StatusLight
  <2>2. torque' = torque /\ led' \in {led, Put(led, s, val[t])}
    BY <2>1, WriteEffect
  <2>3. val[t] => s \in AtProfile
    BY <1>0, <1>3 DEF StatusLight, Accord, InboundPCs, DxlPCs
  <2> QED BY <2>2, <2>3 DEF Put
<1>4. ASSUME ConfigLightsOff PROVE torque' = torque /\ led' \subseteq led
  <2>1. \E result : dynamixel_apply_register("inbound", "led", Pick(todo["inbound"]), FALSE, result)
    BY <1>4 DEF ConfigLightsOff
  <2> QED BY <2>1, WriteEffect DEF Put
<1>5. CASE Inbound
  BY <1>1, <1>2, <1>3, <1>4, <1>5 DEF Inbound, ConfigBegin, PosBegin, EmergencyStop,
     ConfigLightsBegin, ConfigClear, ConfigToken, ConfigRejected, ConfigAccepted,
     PosApply, PosFirst, TorqueBegin, TorqueDone
<1>6. CASE DynamixelTask
  BY <1>1, <1>2, <1>3, <1>6 DEF DynamixelTask, TaskService, TaskTake, TaskGate, ReinitBegin,
     ReinitCheck, TorqueBegin, TorqueDone
<1>7. CASE UsbPoll \/ Daemon \/ Environment
  BY <1>7 DEF UsbPoll, Daemon, Environment, SendInit, ResetRequest, SampleRail,
     HostConfig, HostPos, HostEmergencyStop, Unplug, Plug, PowerCut, PowerReturn
<1>8. CASE UNCHANGED vars
  BY <1>8 DEF vars
<1> QED BY <1>5, <1>6, <1>7, <1>8 DEF Next

\* A status LED comes on only at the settings of the map in force: where the rail stays up and
\* no CONFIG overlaps the control sequence.
THEOREM LightsComeOnVerified ==
  ASSUME PowerCuts = "none", ~Overlaps PROVE Spec => LightComesOnVerified
<1>1. Typed /\ CarriesOn /\ Accord /\ [Next]_vars => [led' \subseteq led \union AtProfile]_vars
  BY AccordIsKept
<1> QED BY AlwaysTyped, AlwaysCarriesOn, AlwaysInAccord, <1>1, PTL DEF Spec, LightComesOnVerified

\* A servo gains torque only at the velocity of the map in force, under the same assumptions.
THEOREM ArmsAtItsProfile ==
  ASSUME PowerCuts = "none", ~Overlaps PROVE Spec => ArmsAtProfile
<1>1. Typed /\ CarriesOn /\ Accord /\ [Next]_vars => [torque' \subseteq torque \union AtProfile]_vars
  BY AccordIsKept
<1> QED BY AlwaysTyped, AlwaysCarriesOn, AlwaysInAccord, <1>1, PTL DEF Spec, ArmsAtProfile
=============================================================================
