--------------------------------- MODULE Sdk ---------------------------------
(***************************************************************************)
(* The SDK as its client sees it: the calls of EchoControlSDK.cpp and the  *)
(* ConfigManager behind them, which reads the configuration, makes the     *)
(* devices, owns them and deletes them.  One client thread calls, while    *)
(* the threads of the devices report through the registered callback.      *)
(* What goes on inside a device is in module Device; here it is running,   *)
(* being stopped, stopped or deleted, online or not.  A Stop() need not    *)
(* return (ThreadLifecycle), so no progress is stated here.                *)
(***************************************************************************)
EXTENDS DeviceIds

CONSTANTS
  Sections,       \* device.cfg: a sequence of [slot, enable, model, id], in the
                  \* order in which std::map keeps their names
  ReleasesFirst,  \* the client calls ECCS_Release before it calls ECCS_Init again
  MaxInits,       \* bound: calls of ECCS_Init
  MaxWrites       \* bound: calls of UpdateConfig

\* What LoadSystem takes for a section: its slot is not negative.
SectionRecords ==
  [slot: Nat, enable: BOOLEAN, model: STRING, id: [prefixed: BOOLEAN, digits: Seq(0..15)]]

ASSUME SectionsAssumption ==
  Sections \in Seq(SectionRecords) /\ MaxInits \in Nat /\ MaxWrites \in Nat

VARIABLES
  file,        \* what device.cfg holds
  parsed, at,  \* what LoadSystem has read, and the section it is at
  m_paramPath, \* whether LoadSystem has noted the path of the file
  m_devices,   \* slot -> device
  devices,     \* every device ever made, as records, in order
  call,        \* the call the client is in
  stopping,    \* Release: the slots not yet visited
  answer,      \* what the last call answered
  heard,       \* the callback has been called since Release last returned
  inits, writes

vars == <<file, parsed, at, m_paramPath, m_devices, devices, call, stopping,
          answer, heard, inits, writes>>

Ids == DOMAIN devices
NoDevices == [slot \in {} |-> 0]
First(S) == CHOOSE s \in S : \A t \in S : s <= t

Init ==
  /\ file = Sections /\ parsed = <<>> /\ at = 0
  /\ m_paramPath = FALSE /\ m_devices = NoDevices /\ devices = <<>>
  /\ call = "none" /\ stopping = {} /\ answer = [to |-> "none"]
  /\ heard = FALSE /\ inits = 0 /\ writes = 0

-----------------------------------------------------------------------------
(* ECCS_Init: LoadSystem                                                   *)

(* The rules are optional; a missing parameter file makes the call fail. *)
InitParse ==
  /\ call = "none" /\ inits < MaxInits
  /\ ReleasesFirst => m_devices = NoDevices
  /\ inits' = inits + 1
  /\ m_paramPath' = TRUE
  /\ \E readable \in BOOLEAN :
       IF readable
       THEN /\ parsed' = file /\ at' = 1 /\ call' = "ECCS_Init"
            /\ UNCHANGED answer
       ELSE /\ answer' = [to |-> "ECCS_Init", is |-> "ECCS_ERR_CFG_LOAD_FAILED"]
            /\ UNCHANGED <<parsed, at, call>>
  /\ UNCHANGED <<file, m_devices, devices, stopping, heard, writes>>

(* Mutant of Accepts: the ID is not compared with the model. *)
AcceptsAnyId(sec) ==
  /\ sec.enable
  /\ sec.model \in Models
  /\ GetIndex(Strtoul(sec.id, 16)) >= 1

(* The checks before a device is made. *)
Accepts(sec) ==
  /\ sec.enable
  /\ sec.model \in Models
  /\ GetOID(Strtoul(sec.id, 16)) = OIDOfModel(sec.model)
  /\ GetIndex(Strtoul(sec.id, 16)) >= 1

(* DeviceBase::Init, which reads the ID once more and wants an index. *)
DeviceId(sec) == Strtoul(sec.id, 0)
DeviceInit(sec) == GetIndex(DeviceId(sec)) >= 1

(* One section: the device is made, initialised, started and takes its slot,
   whoever was there before; one whose Init fails is deleted at once. *)
LoadSection ==
  /\ call = "ECCS_Init" /\ at <= Len(parsed)
  /\ at' = at + 1
  /\ LET sec == parsed[at]
         made == [slot |-> sec.slot, oid |-> OIDOfModel(sec.model), m_deviceID |-> DeviceId(sec),
                  status |-> "running", online |-> FALSE, callback |-> FALSE]
         new == Len(devices) + 1
     IN IF Accepts(sec) /\ DeviceInit(sec)
        THEN /\ devices' = Append(devices, made)
             /\ m_devices' = [s \in DOMAIN m_devices \cup {sec.slot} |->
                                IF s = sec.slot THEN new ELSE m_devices[s]]
        ELSE UNCHANGED <<devices, m_devices>>
  /\ UNCHANGED <<file, parsed, m_paramPath, call, stopping, answer, heard, inits, writes>>

InitReturn ==
  /\ call = "ECCS_Init" /\ at > Len(parsed) /\ call' = "none"
  /\ answer' = [to |-> "ECCS_Init", is |-> "ECCS_SUCCESS"]
  /\ UNCHANGED <<file, parsed, at, m_paramPath, m_devices, devices, stopping, heard,
                 inits, writes>>

-----------------------------------------------------------------------------
(* ECCS_Release: Stop and delete every device, then forget them            *)

ReleaseBegin ==
  /\ call = "none" /\ call' = "ECCS_Release"
  /\ stopping' = DOMAIN m_devices
  /\ UNCHANGED <<file, parsed, at, m_paramPath, m_devices, devices, answer, heard,
                 inits, writes>>

(* Stop() of the device: its threads go on meanwhile. *)
StopBegin ==
  /\ call = "ECCS_Release" /\ stopping # {}
  /\ LET d == m_devices[First(stopping)]
     IN /\ devices[d].status = "running"
        /\ devices' = [devices EXCEPT ![d].status = "stopping"]
  /\ UNCHANGED <<file, parsed, at, m_paramPath, m_devices, call, stopping, answer,
                 heard, inits, writes>>

(* If Stop() returns, its threads have ended.  It goes through OFFLINE, which it
   reports as any other state. *)
StopReturn ==
  /\ call = "ECCS_Release" /\ stopping # {}
  /\ LET d == m_devices[First(stopping)]
     IN /\ devices[d].status = "stopping"
        /\ devices' = [devices EXCEPT ![d].status = "stopped", ![d].online = FALSE]
        /\ heard' = (heard \/ devices[d].callback)
  /\ UNCHANGED <<file, parsed, at, m_paramPath, m_devices, call, stopping, answer,
                 inits, writes>>

(* Mutant of ReleaseDelete: the device of a slot behind it is passed over. *)
ReleaseDeleteTwo ==
  /\ call = "ECCS_Release" /\ stopping # {}
  /\ LET d == m_devices[First(stopping)]
     IN /\ devices[d].status = "stopped"
        /\ devices' = [devices EXCEPT ![d].status = "deleted", ![d].callback = FALSE]
  /\ LET rest == stopping \ {First(stopping)}
     IN stopping' = IF rest = {} THEN {} ELSE rest \ {First(rest)}
  /\ UNCHANGED <<file, parsed, at, m_paramPath, m_devices, call, answer, heard,
                 inits, writes>>

ReleaseDelete ==
  /\ call = "ECCS_Release" /\ stopping # {}
  /\ LET d == m_devices[First(stopping)]
     IN /\ devices[d].status = "stopped"
        /\ devices' = [devices EXCEPT ![d].status = "deleted", ![d].callback = FALSE]
  /\ stopping' = stopping \ {First(stopping)}
  /\ UNCHANGED <<file, parsed, at, m_paramPath, m_devices, call, answer, heard,
                 inits, writes>>

ReleaseReturn ==
  /\ call = "ECCS_Release" /\ stopping = {} /\ call' = "none"
  /\ m_devices' = NoDevices
  /\ answer' = [to |-> "ECCS_Release"]
  /\ heard' = FALSE
  /\ UNCHANGED <<file, parsed, at, m_paramPath, devices, stopping, inits, writes>>

-----------------------------------------------------------------------------
(* The other calls                                                         *)

(* ECCS_RegisterCallback: the devices that exist now learn of it. *)
RegisterCallback ==
  /\ call = "none"
  /\ devices' = [d \in Ids |->
       [devices[d] EXCEPT !.callback = @ \/ \E s \in DOMAIN m_devices : m_devices[s] = d]]
  /\ answer' = [to |-> "ECCS_RegisterCallback", is |-> "ECCS_SUCCESS"]
  /\ UNCHANGED <<file, parsed, at, m_paramPath, m_devices, call, stopping, heard,
                 inits, writes>>

(* InternalFindDevice: the slots whose device says it is of the type. *)
OfType(type) == {s \in DOMAIN m_devices : GetType(devices[m_devices[s]].m_deviceID) = type}

(* PostPkt, which every control call is: the packet goes to the first device
   of the type. *)
PostPkt(type) ==
  /\ call = "none"
  /\ answer' = IF OfType(type) = {}
               THEN [to |-> "PostPkt", type |-> type, is |-> "ECCS_ERR_DEV_NOT_FOUND"]
               ELSE [to |-> "PostPkt", type |-> type, is |-> "ECCS_SUCCESS",
                     device |-> m_devices[First(OfType(type))]]
  /\ UNCHANGED <<file, parsed, at, m_paramPath, m_devices, devices, call, stopping, heard,
                 inits, writes>>

(* ECCS_IsSystemOnline.  The handle is the ConfigManager, which always exists. *)
IsSystemOnline ==
  /\ call = "none"
  /\ answer' = [to |-> "ECCS_IsSystemOnline", is |-> TRUE]
  /\ UNCHANGED <<file, parsed, at, m_paramPath, m_devices, devices, call, stopping, heard,
                 inits, writes>>

(* ConfigManager::UpdateConfig, for the key Enable.  The file is read and
   written anew, and either may fail; the devices do not notice. *)
UpdateConfig(slot, enable) ==
  /\ call = "none" /\ writes < MaxWrites
  /\ writes' = writes + 1
  /\ \E works \in BOOLEAN :
       LET found == {i \in DOMAIN file : file[i].slot = slot}
           done == m_paramPath /\ found # {} /\ works
       IN /\ file' = IF done THEN [i \in DOMAIN file |->
                                     IF i \in found THEN [file[i] EXCEPT !.enable = enable]
                                     ELSE file[i]]
                     ELSE file
          /\ answer' = [to |-> "UpdateConfig", is |-> done]
  /\ UNCHANGED <<parsed, at, m_paramPath, m_devices, devices, call, stopping, heard, inits>>

-----------------------------------------------------------------------------
(* A device's threads: its connection comes and goes, and it says so to the
   callback it has been given. *)
Report(d) ==
  /\ devices[d].status \in {"running", "stopping"}
  /\ devices' = [devices EXCEPT ![d].online = ~@]
  /\ heard' = (heard \/ devices[d].callback)
  /\ UNCHANGED <<file, parsed, at, m_paramPath, m_devices, call, stopping, answer,
                 inits, writes>>

-----------------------------------------------------------------------------
Slots == {Sections[i].slot : i \in DOMAIN Sections}
TypeCodes == {Types[t] : t \in DOMAIN Types}

Next ==
  \/ InitParse \/ LoadSection \/ InitReturn
  \/ ReleaseBegin \/ StopBegin \/ StopReturn \/ ReleaseDelete \/ ReleaseReturn
  \/ RegisterCallback \/ IsSystemOnline
  \/ \E type \in TypeCodes : PostPkt(type)
  \/ \E slot \in Slots, enable \in BOOLEAN : UpdateConfig(slot, enable)
  \/ \E d \in Ids : Report(d)

Spec == Init /\ [][Next]_vars

-----------------------------------------------------------------------------
(* Properties                                                              *)

Idle == call = "none"
Managed == {m_devices[s] : s \in DOMAIN m_devices}

(* Every variable holds a value the code can give it; a slot leads to a device
   that was made for it. *)
TypeOK ==
  /\ at \in 0..(Len(parsed) + 1)
  /\ DOMAIN m_devices \subseteq Slots
  /\ \A s \in DOMAIN m_devices : m_devices[s] \in Ids /\ devices[m_devices[s]].slot = s
  /\ \A d \in Ids : /\ devices[d].status \in {"running", "stopping", "stopped", "deleted"}
                    /\ devices[d].online => devices[d].status \in {"running", "stopping"}
  /\ call \in {"none", "ECCS_Init", "ECCS_Release"}
  /\ stopping \subseteq DOMAIN m_devices
  /\ inits \in 0..MaxInits /\ writes \in 0..MaxWrites

(* Between two calls a running device is one that ECCS_Release will reach, and
   no slot leads to a deleted one.  (With the types of the variables.) *)
OwnedIsAlive ==
  TypeOK /\ (Idle => \A d \in Ids : devices[d].status = "running" <=> d \in Managed)

(* Once ECCS_Release has returned and until the client comes back, its callback
   and its userCtx are not used any more. *)
SilentAfterRelease == answer.to = "ECCS_Release" /\ Idle => ~heard

(* A control call reaches a running device of the class the type stands for;
   it answers that there is none only if none was made. *)
PacketsReachTheirKind ==
  Idle /\ answer.to = "PostPkt" =>
    IF answer.is = "ECCS_SUCCESS"
    THEN LET d == devices[answer.device] IN GetType(d.oid) = answer.type /\ d.status = "running"
    ELSE \A d \in Managed : GetType(devices[d].oid) # answer.type

(* ECCS_Init that succeeded on an SDK without devices has made one for every
   section that passes the checks: one bad section does not cost another its
   device. *)
InitIsComplete ==
  (Idle /\ answer.to = "ECCS_Init" /\ answer.is = "ECCS_SUCCESS")
    => {parsed[i].slot : i \in {j \in DOMAIN parsed : Accepts(parsed[j]) /\ DeviceInit(parsed[j])}}
         \subseteq DOMAIN m_devices

(* ConfigTool.cpp writes a section for a loudspeaker of the model under whose
   name Sound_NetSpeaker_V2.h registers the class: once ECCS_Init has
   succeeded, ECCS_Sound_PushData finds the device. *)
LoudspeakerIsMade ==
  (Idle /\ answer.to = "ECCS_Init" /\ answer.is = "ECCS_SUCCESS") => OfType(Types.SOUND) # {}
=============================================================================
