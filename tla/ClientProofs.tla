----------------------------- MODULE ClientProofs -----------------------------
(***************************************************************************)
(* The client interface and what becomes of its calls, for every           *)
(* configuration, number of calls and heartbeats.                          *)
(***************************************************************************)
EXTENDS Client, FiniteSetTheorems, FunctionTheorems, WellFoundedInduction, TLAPS

-----------------------------------------------------------------------------
(* ECCS_Init and ECCS_Release.  DevicesAreOwned, for every configuration in *)
(* which no two sections have the same slot, and a client that releases     *)
(* before it initialises again, is not inductive: it is silent while a call *)
(* is under way.  IInv says what the two have done so far.                  *)

SectionType == {sec \in SectionRecords : sec.slot \in Slots}

DeviceType ==
  [slot: Slots, oid: {OIDOfModel(sec.model) : sec \in SectionType},
   m_deviceID: {DeviceId(sec) : sec \in SectionType},
   status: {"running", "stopping", "stopped", "deleted"}, online: BOOLEAN, callback: BOOLEAN]

DistinctSlots(secs) == \A i, j \in DOMAIN secs : secs[i].slot = secs[j].slot => i = j

-----------------------------------------------------------------------------
(* The inductive invariant                                                 *)

WellTyped ==
  /\ file \in Seq(SectionType) /\ parsed \in Seq(SectionType)
  /\ devices \in Seq(DeviceType)
  /\ at \in 0..(Len(parsed) + 1) /\ (call = "ECCS_Init" => at >= 1)
  /\ m_devices = [s \in DOMAIN m_devices |-> m_devices[s]] /\ DOMAIN m_devices \subseteq Slots
  /\ \A s \in DOMAIN m_devices : m_devices[s] \in Ids /\ devices[m_devices[s]].slot = s
  /\ \A d \in Ids : devices[d].online => devices[d].status \in {"running", "stopping"}
  /\ call \in {"none", "ECCS_Init", "ECCS_Release"}
  /\ stopping \subseteq DOMAIN m_devices
  /\ inits \in 0..MaxInits /\ writes \in 0..MaxWrites
  /\ DistinctSlots(file) /\ DistinctSlots(parsed)

\* A slot that is taken is that of a section that was read already.
TakenWasRead ==
  call = "ECCS_Init" => \A s \in DOMAIN m_devices : \E i \in 1..(at - 1) : parsed[i].slot = s

\* Outside ECCS_Release a device runs and has its slot, or is deleted.
RunsOrIsGone ==
  call # "ECCS_Release" =>
    \A d \in Ids : devices[d].status = (IF d \in Managed THEN "running" ELSE "deleted")

\* In ECCS_Release a device that is not deleted is still to be visited.
StillToVisit ==
  call = "ECCS_Release" =>
    \A d \in Ids : devices[d].status # "deleted" => \E s \in stopping : m_devices[s] = d

\* A deleted device calls nobody; after ECCS_Release none has a callback.
DeletedIsSilent == \A d \in Ids : devices[d].status = "deleted" => ~devices[d].callback
ReleasedIsSilent ==
  answer.to = "ECCS_Release" /\ call \in {"none", "ECCS_Init"} =>
    ~heard /\ \A d \in Ids : ~devices[d].callback

\* ECCS_Init has made what it has read, and then all.
MadeSoFar ==
  call = "ECCS_Init" =>
    \A i \in 1..(at - 1) :
      Accepts(parsed[i]) /\ DeviceInit(parsed[i]) => parsed[i].slot \in DOMAIN m_devices

IInv ==
  /\ WellTyped /\ TakenWasRead /\ MadeSoFar /\ InitIsComplete /\ RunsOrIsGone /\ StillToVisit
  /\ DeletedIsSilent /\ ReleasedIsSilent

-----------------------------------------------------------------------------
(* The slot that Release visits next is one of those that are left. *)
LEMMA FirstIsOne ==
  ASSUME NEW S, S \subseteq Nat, S # {}
  PROVE  First(S) \in S /\ \A t \in S : First(S) <= t
<1> DEFINE Less == {ss \in Nat \X Nat : ss[1] < ss[2]}
<1>1. IsWellFoundedOn(Less, Nat)
  BY NatLessThanWellFounded DEF OpToRel
<1>2. \E s \in S : \A t \in S : ~(<<t, s>> \in Less)
  BY <1>1, WFMin
<1>3. PICK s \in S : \A t \in S : ~(<<t, s>> \in Less)
  BY <1>2
<1>4. ASSUME NEW t \in S PROVE s <= t
  <2>1. s \in Nat /\ t \in Nat /\ (t < s => <<t, s>> \in Less)
    OBVIOUS
  <2>. QED
    BY <1>3, <2>1
<1>. QED
  BY <1>4 DEF First

LEMMA SlotsAreNumbers == Slots \subseteq Nat
<1>1. ASSUME NEW i \in DOMAIN Sections PROVE Sections[i].slot \in Nat
  <2>1. Sections[i] \in SectionRecords
    BY SectionsAssumption
  <2>. QED
    BY <2>1 DEF SectionRecords
<1>. QED
  BY <1>1 DEF Slots

LEMMA Initially == DistinctSlots(Sections) /\ Init => IInv
<1> SUFFICES ASSUME DistinctSlots(Sections), Init PROVE IInv
  OBVIOUS
<1>1. Sections \in Seq(SectionType)
  <2>1. Len(Sections) \in Nat /\ Sections = [i \in 1..Len(Sections) |-> Sections[i]]
    BY SectionsAssumption
  <2>2. ASSUME NEW i \in 1..Len(Sections) PROVE Sections[i] \in SectionType
    <3>1. Sections[i] \in SectionRecords
      BY SectionsAssumption
    <3>2. Sections[i].slot \in Slots
      BY <2>1 DEF Slots
    <3>. QED
      BY <3>1, <3>2 DEF SectionType
  <2>. QED
    BY <2>1, <2>2
<1>2. Ids = {} /\ DOMAIN m_devices = {} /\ m_devices = NoDevices
  BY DEF Init, NoDevices, Ids
<1>3. WellTyped
  BY <1>1, <1>2, SectionsAssumption DEF Init, WellTyped, NoDevices, DistinctSlots
<1>. QED
  BY <1>2, <1>3 DEF IInv, Init, TakenWasRead, MadeSoFar, InitIsComplete, Idle, RunsOrIsGone, StillToVisit, DeletedIsSilent, ReleasedIsSilent

LEMMA LoadKeeps == ReleasesFirst /\ IInv /\ LoadSection => IInv'
<1> SUFFICES ASSUME IInv, LoadSection PROVE IInv'
  OBVIOUS
<1> DEFINE sec == parsed[at]
           new == Len(devices) + 1
           made == [slot |-> sec.slot, oid |-> OIDOfModel(sec.model), m_deviceID |-> DeviceId(sec),
                    status |-> "running", online |-> FALSE, callback |-> FALSE]
<1>1. /\ call = "ECCS_Init" /\ at \in 1..Len(parsed) /\ at' = at + 1 /\ parsed \in Seq(SectionType)
      /\ UNCHANGED <<file, parsed, call, stopping, answer, heard, inits, writes>>
  BY DEF LoadSection, IInv, WellTyped
<1>2. CASE ~(Accepts(sec) /\ DeviceInit(sec)) /\ UNCHANGED <<devices, m_devices>>
  <2>1. WellTyped'
    BY <1>1, <1>2 DEF IInv, WellTyped, Ids, DistinctSlots
  <2>2. TakenWasRead'
    BY <1>1, <1>2 DEF IInv, TakenWasRead
  <2>3. MadeSoFar' /\ InitIsComplete'
    BY <1>1, <1>2 DEF IInv, MadeSoFar, InitIsComplete, Idle
  <2>. QED
    BY <1>1, <1>2, <2>1, <2>2, <2>3
       DEF IInv, RunsOrIsGone, StillToVisit, DeletedIsSilent, ReleasedIsSilent, Managed, Ids
<1>3. CASE /\ devices' = Append(devices, made)
           /\ m_devices' = [s \in DOMAIN m_devices \cup {sec.slot} |->
                              IF s = sec.slot THEN new ELSE m_devices[s]]
  <2>1. sec \in SectionType /\ made \in DeviceType
    <3>1. sec \in SectionType
      BY <1>1
    <3>2. sec.slot \in Slots
      BY <3>1 DEF SectionType
    <3>. QED
      BY <3>1, <3>2 DEF DeviceType
  <2>2. devices \in Seq(DeviceType) /\ Ids = 1..Len(devices)
    BY DEF IInv, WellTyped, Ids
  <2>3. /\ devices' \in Seq(DeviceType) /\ Ids' = Ids \cup {new} /\ new \notin Ids
        /\ devices'[new] = made /\ \A d \in Ids : devices'[d] = devices[d]
    BY <1>3, <2>1, <2>2 DEF Ids
  <2>4. sec.slot \notin DOMAIN m_devices
    <3>1. /\ DistinctSlots(parsed)
          /\ \A s \in DOMAIN m_devices : \E i \in 1..(at - 1) : parsed[i].slot = s
      BY <1>1 DEF IInv, TakenWasRead, WellTyped
    <3>. QED
      BY <1>1, <3>1 DEF DistinctSlots
  <2>5. /\ DOMAIN m_devices' = DOMAIN m_devices \cup {sec.slot}
        /\ m_devices'[sec.slot] = new
        /\ \A s \in DOMAIN m_devices : m_devices'[s] = m_devices[s]
    BY <1>3, <2>4
  <2>6. Managed' = Managed \cup {new}
    BY <2>5 DEF Managed
  <2>7. WellTyped'
    <3>1. sec.slot \in Slots
      BY <2>1 DEF SectionType
    <3>2. m_devices' = [s \in DOMAIN m_devices' |-> m_devices'[s]]
      BY <1>3, <2>5
    <3>3. \A s \in DOMAIN m_devices' : m_devices'[s] \in Ids' /\ devices'[m_devices'[s]].slot = s
      BY <2>3, <2>5 DEF IInv, WellTyped
    <3>4. \A d \in Ids' : devices'[d].online => devices'[d].status \in {"running", "stopping"}
      BY <2>3 DEF IInv, WellTyped
    <3>. QED
      BY <1>1, <2>3, <2>5, <3>1, <3>2, <3>3, <3>4 DEF IInv, WellTyped, DistinctSlots
  <2>8. TakenWasRead'
    BY <1>1, <2>5 DEF IInv, TakenWasRead
  <2>9. RunsOrIsGone'
    BY <1>1, <2>3, <2>6 DEF IInv, RunsOrIsGone
  <2>10. DeletedIsSilent' /\ ReleasedIsSilent'
    BY <1>1, <2>3 DEF IInv, DeletedIsSilent, ReleasedIsSilent
  <2>11. MadeSoFar' /\ InitIsComplete'
    BY <1>1, <2>5 DEF IInv, MadeSoFar, InitIsComplete, Idle
  <2>. QED
    BY <1>1, <2>7, <2>8, <2>9, <2>10, <2>11 DEF IInv, StillToVisit
<1>. QED
  BY <1>2, <1>3 DEF LoadSection

LEMMA InitKeeps == ReleasesFirst /\ IInv /\ (InitParse \/ InitReturn) => IInv'
<1> SUFFICES ASSUME ReleasesFirst, IInv, InitParse \/ InitReturn PROVE IInv'
  OBVIOUS
<1>1. CASE InitParse
  <2>1. /\ call = "none" /\ DOMAIN m_devices = {} /\ inits < MaxInits /\ inits' = inits + 1
        /\ UNCHANGED <<file, m_devices, devices, stopping, heard, writes>>
    BY <1>1 DEF InitParse, NoDevices
  <2>2. \/ parsed' = file /\ at' = 1 /\ call' = "ECCS_Init" /\ answer' = answer
        \/ /\ parsed' = parsed /\ at' = at /\ call' = "none"
           /\ answer'.to = "ECCS_Init" /\ answer'.is = "ECCS_ERR_CFG_LOAD_FAILED"
    BY <1>1, <2>1 DEF InitParse
  <2>3. WellTyped'
    BY <2>1, <2>2, SectionsAssumption DEF IInv, WellTyped, Ids
  <2>4. TakenWasRead' /\ MadeSoFar' /\ InitIsComplete'
    BY <2>1, <2>2 DEF IInv, TakenWasRead, MadeSoFar, InitIsComplete, Idle
  <2>5. RunsOrIsGone' /\ StillToVisit' /\ DeletedIsSilent' /\ ReleasedIsSilent'
    BY <2>1, <2>2
       DEF IInv, RunsOrIsGone, StillToVisit, DeletedIsSilent, ReleasedIsSilent, Managed, Ids
  <2>. QED
    BY <2>3, <2>4, <2>5 DEF IInv
<1>2. CASE InitReturn
  <2>1. /\ call = "ECCS_Init" /\ call' = "none" /\ at > Len(parsed)
        /\ answer'.to = "ECCS_Init"
        /\ UNCHANGED <<file, parsed, at, m_devices, devices, stopping, heard, inits, writes>>
    BY <1>2 DEF InitReturn
  <2>2. WellTyped'
    BY <2>1 DEF IInv, WellTyped, Ids
  <2>3. TakenWasRead' /\ MadeSoFar'
    BY <2>1 DEF TakenWasRead, MadeSoFar
  <2>4. InitIsComplete'
    BY <2>1 DEF IInv, WellTyped, MadeSoFar, InitIsComplete, Idle
  <2>5. RunsOrIsGone' /\ StillToVisit' /\ DeletedIsSilent' /\ ReleasedIsSilent'
    BY <2>1 DEF IInv, RunsOrIsGone, StillToVisit, DeletedIsSilent, ReleasedIsSilent, Managed, Ids
  <2>. QED
    BY <2>2, <2>3, <2>4, <2>5 DEF IInv
<1>. QED
  BY <1>1, <1>2

LEMMA ReleaseBeginKeeps == IInv /\ ReleaseBegin => IInv'
<1> SUFFICES ASSUME IInv, ReleaseBegin PROVE IInv'
  OBVIOUS
<1>1. /\ call = "none" /\ call' = "ECCS_Release" /\ stopping' = DOMAIN m_devices
      /\ UNCHANGED <<file, parsed, at, m_devices, devices, answer, heard, inits, writes>>
  BY DEF ReleaseBegin
<1>2. WellTyped'
  BY <1>1 DEF IInv, WellTyped, Ids
<1>3. StillToVisit'
  BY <1>1 DEF IInv, RunsOrIsGone, StillToVisit, Managed, Ids
<1>. QED
  BY <1>1, <1>2, <1>3 DEF IInv, TakenWasRead, MadeSoFar, InitIsComplete, Idle, RunsOrIsGone,
                          DeletedIsSilent, ReleasedIsSilent, Ids

(* One device changes its status, its connection or its callback. *)
LEMMA OneDevice ==
  ASSUME IInv, NEW d \in Ids, NEW r \in DeviceType,
         devices' = [devices EXCEPT ![d] = r], r.slot = devices[d].slot, r.online => r.status \in {"running", "stopping"},
         UNCHANGED <<file, parsed, at, m_devices, call, inits, writes>>, stopping' \subseteq stopping
  PROVE  WellTyped' /\ Ids' = Ids /\ devices'[d] = r /\ \A e \in Ids \ {d} : devices'[e] = devices[e]
<1>1. devices \in Seq(DeviceType) /\ Ids = 1..Len(devices)
  BY DEF IInv, WellTyped, Ids
<1>2. /\ devices' \in Seq(DeviceType) /\ Ids' = Ids
      /\ devices'[d] = r /\ \A e \in Ids \ {d} : devices'[e] = devices[e]
  BY <1>1 DEF Ids
<1>3. \A s \in DOMAIN m_devices : m_devices[s] \in Ids /\ devices'[m_devices[s]].slot = s
  BY <1>2 DEF IInv, WellTyped
<1>4. \A e \in Ids : devices'[e].online => devices'[e].status \in {"running", "stopping"}
  BY <1>2 DEF IInv, WellTyped
<1>. QED
  BY <1>2, <1>3, <1>4 DEF IInv, WellTyped

LEMMA StopBeginKeeps == IInv /\ StopBegin => IInv'
<1> SUFFICES ASSUME IInv, StopBegin PROVE IInv'
  OBVIOUS
<1> DEFINE d == m_devices[First(stopping)]
           r == [devices[d] EXCEPT !.status = "stopping"]
<1>1. /\ call = "ECCS_Release" /\ stopping # {} /\ devices[d].status = "running"
      /\ devices' = [devices EXCEPT ![d] = r]
      /\ UNCHANGED <<file, parsed, at, m_devices, call, stopping, answer, heard, inits, writes>>
  BY DEF StopBegin
<1>2. d \in Ids /\ devices[d] \in DeviceType
  <2>1. First(stopping) \in stopping
    BY <1>1, FirstIsOne, SlotsAreNumbers DEF IInv, WellTyped
  <2>2. d \in Ids
    BY <2>1 DEF IInv, WellTyped
  <2>. QED
    BY <2>2 DEF IInv, WellTyped, Ids
<1>3. r \in DeviceType /\ r.slot = devices[d].slot /\ r.status = "stopping"
  BY <1>2 DEF DeviceType
<1>4. WellTyped' /\ Ids' = Ids /\ devices'[d] = r /\ \A e \in Ids \ {d} : devices'[e] = devices[e]
  <2> HIDE DEF d, r
  <2>. QED
    BY <1>1, <1>2, <1>3, OneDevice
<1>5. StillToVisit' /\ DeletedIsSilent'
  BY <1>1, <1>2, <1>3, <1>4 DEF IInv, StillToVisit, DeletedIsSilent
<1>. QED
  BY <1>1, <1>4, <1>5 DEF IInv, TakenWasRead, MadeSoFar, InitIsComplete, Idle, RunsOrIsGone, ReleasedIsSilent

LEMMA StopReturnKeeps == IInv /\ StopReturn => IInv'
<1> SUFFICES ASSUME IInv, StopReturn PROVE IInv'
  OBVIOUS
<1> DEFINE d == m_devices[First(stopping)]
           r == [devices[d] EXCEPT !.status = "stopped", !.online = FALSE]
<1>1. /\ call = "ECCS_Release" /\ stopping # {} /\ devices[d].status = "stopping"
      /\ devices' = [devices EXCEPT ![d] = r]
      /\ UNCHANGED <<file, parsed, at, m_devices, call, stopping, answer, inits, writes>>
  BY DEF StopReturn
<1>2. d \in Ids /\ devices[d] \in DeviceType
  <2>1. First(stopping) \in stopping
    BY <1>1, FirstIsOne, SlotsAreNumbers DEF IInv, WellTyped
  <2>2. d \in Ids
    BY <2>1 DEF IInv, WellTyped
  <2>. QED
    BY <2>2 DEF IInv, WellTyped, Ids
<1>3. r \in DeviceType /\ r.slot = devices[d].slot /\ ~r.online /\ r.status = "stopped"
  BY <1>2 DEF DeviceType
<1>4. WellTyped' /\ Ids' = Ids /\ devices'[d] = r /\ \A e \in Ids \ {d} : devices'[e] = devices[e]
  <2> HIDE DEF d, r
  <2>. QED
    BY <1>1, <1>2, <1>3, OneDevice
<1>5. StillToVisit' /\ DeletedIsSilent'
  BY <1>1, <1>2, <1>3, <1>4 DEF IInv, StillToVisit, DeletedIsSilent
<1>. QED
  BY <1>1, <1>4, <1>5 DEF IInv, TakenWasRead, MadeSoFar, InitIsComplete, Idle, RunsOrIsGone, ReleasedIsSilent

LEMMA ReleaseDeleteKeeps == IInv /\ ReleaseDelete => IInv'
<1> SUFFICES ASSUME IInv, ReleaseDelete PROVE IInv'
  OBVIOUS
<1> DEFINE first == First(stopping)
           d == m_devices[first]
           r == [devices[d] EXCEPT !.status = "deleted", !.callback = FALSE]
<1>1. /\ call = "ECCS_Release" /\ stopping # {} /\ devices[d].status = "stopped"
      /\ devices' = [devices EXCEPT ![d] = r] /\ stopping' = stopping \ {first}
      /\ UNCHANGED <<file, parsed, at, m_devices, call, answer, heard, inits, writes>>
  BY DEF ReleaseDelete
<1>2. first \in stopping /\ d \in Ids /\ devices[d] \in DeviceType
  BY <1>1, FirstIsOne, SlotsAreNumbers DEF IInv, WellTyped, Ids
<1>3. /\ r \in DeviceType /\ r.slot = devices[d].slot /\ ~r.online
      /\ r.status = "deleted" /\ ~r.callback
  BY <1>1, <1>2 DEF DeviceType, IInv, WellTyped
<1>4. WellTyped' /\ Ids' = Ids /\ devices'[d] = r /\ \A e \in Ids \ {d} : devices'[e] = devices[e]
  <2> HIDE DEF d, r
  <2>. QED
    BY <1>1, <1>2, <1>3, OneDevice
<1>5. DeletedIsSilent'
  BY <1>3, <1>4 DEF IInv, DeletedIsSilent
<1>6. StillToVisit'
  <2> SUFFICES ASSUME NEW e \in Ids, devices'[e].status # "deleted"
               PROVE  \E s \in stopping' : m_devices'[s] = e
    BY <1>1, <1>4 DEF StillToVisit
  <2>1. e # d /\ devices[e].status # "deleted"
    BY <1>3, <1>4
  <2>2. PICK s \in stopping : m_devices[s] = e
    BY <1>1, <2>1 DEF IInv, StillToVisit
  <2>. QED
    BY <1>1, <2>1, <2>2
<1>. QED
  BY <1>1, <1>4, <1>5, <1>6 DEF IInv, TakenWasRead, MadeSoFar, InitIsComplete, Idle, RunsOrIsGone, ReleasedIsSilent

LEMMA ReleaseReturnKeeps == IInv /\ ReleaseReturn => IInv'
<1> SUFFICES ASSUME IInv, ReleaseReturn PROVE IInv'
  OBVIOUS
<1>1. /\ call = "ECCS_Release" /\ stopping = {} /\ call' = "none"
      /\ m_devices' = NoDevices /\ answer'.to = "ECCS_Release" /\ heard' = FALSE
      /\ UNCHANGED <<file, parsed, at, devices, stopping, inits, writes>>
  BY DEF ReleaseReturn
<1>2. DOMAIN m_devices' = {} /\ m_devices' = [s \in DOMAIN m_devices' |-> m_devices'[s]] /\ Managed' = {}
  BY <1>1 DEF NoDevices, Managed
<1>3. \A d \in Ids : devices[d].status = "deleted"
  BY <1>1 DEF IInv, StillToVisit
<1>4. WellTyped'
  BY <1>1, <1>2 DEF IInv, WellTyped, Ids
<1>5. RunsOrIsGone' /\ DeletedIsSilent' /\ ReleasedIsSilent'
  BY <1>1, <1>2, <1>3 DEF IInv, RunsOrIsGone, DeletedIsSilent, ReleasedIsSilent, Ids
<1>. QED
  BY <1>1, <1>4, <1>5 DEF IInv, TakenWasRead, MadeSoFar, InitIsComplete, Idle, StillToVisit

LEMMA RegisterKeeps == IInv /\ RegisterCallback => IInv'
<1> SUFFICES ASSUME IInv, RegisterCallback PROVE IInv'
  OBVIOUS
<1>1. /\ call = "none" /\ answer'.to = "ECCS_RegisterCallback"
      /\ devices' = [d \in Ids |->
           [devices[d] EXCEPT !.callback = @ \/ \E s \in DOMAIN m_devices : m_devices[s] = d]]
      /\ UNCHANGED <<file, parsed, at, m_devices, call, stopping, heard, inits, writes>>
  BY DEF RegisterCallback
<1>2. devices \in Seq(DeviceType) /\ Ids = 1..Len(devices)
  BY DEF IInv, WellTyped, Ids
<1>3. ASSUME NEW d \in Ids
      PROVE  /\ devices'[d] \in DeviceType /\ devices'[d].slot = devices[d].slot
             /\ devices'[d].status = devices[d].status /\ devices'[d].online = devices[d].online
             /\ devices'[d].callback = (devices[d].callback \/ d \in Managed)
  <2>1. devices[d] \in DeviceType
    BY <1>2
  <2>2. (\E s \in DOMAIN m_devices : m_devices[s] = d) <=> d \in Managed
    BY DEF Managed
  <2>3. devices'[d] = [devices[d] EXCEPT !.callback = @ \/ \E s \in DOMAIN m_devices : m_devices[s] = d]
    BY <1>1
  <2>. QED
    BY <2>1, <2>2, <2>3 DEF DeviceType
<1>4. devices' \in Seq(DeviceType) /\ Ids' = Ids
  <2>1. devices' = [d \in 1..Len(devices) |-> devices'[d]]
    BY <1>1, <1>2
  <2>2. \A d \in 1..Len(devices) : devices'[d] \in DeviceType
    BY <1>2, <1>3
  <2>. QED
    BY <1>2, <2>1, <2>2 DEF Ids
<1>5. WellTyped'
  <2>1. \A s \in DOMAIN m_devices : m_devices[s] \in Ids /\ devices'[m_devices[s]].slot = s
    BY <1>3 DEF IInv, WellTyped
  <2>2. \A d \in Ids : devices'[d].online => devices'[d].status \in {"running", "stopping"}
    BY <1>3 DEF IInv, WellTyped
  <2>. QED
    BY <1>1, <1>4, <2>1, <2>2 DEF IInv, WellTyped
<1>6. RunsOrIsGone' /\ DeletedIsSilent'
  <2>1. Managed' = Managed
    BY <1>1 DEF Managed
  <2>2. \A d \in Ids : devices[d].status = (IF d \in Managed THEN "running" ELSE "deleted")
    BY <1>1 DEF IInv, RunsOrIsGone
  <2>3. RunsOrIsGone'
    BY <1>3, <1>4, <2>1, <2>2 DEF RunsOrIsGone
  <2>4. ASSUME NEW d \in Ids, devices'[d].status = "deleted" PROVE ~devices'[d].callback
    BY <1>3, <2>2, <2>4 DEF IInv, DeletedIsSilent
  <2>. QED
    BY <1>4, <2>3, <2>4 DEF DeletedIsSilent
<1>. QED
  BY <1>1, <1>5, <1>6 DEF IInv, TakenWasRead, MadeSoFar, InitIsComplete, Idle, StillToVisit, ReleasedIsSilent

(* Calls that only answer, or write the file. *)
LEMMA OthersKeep ==
  ASSUME IInv, \/ \E type \in TypeCodes : PostPkt(type)
               \/ IsSystemOnline
               \/ \E slot \in Slots, enable \in BOOLEAN : UpdateConfig(slot, enable)
  PROVE  IInv'
<1>1. /\ call = "none" /\ answer'.to \in {"PostPkt", "ECCS_IsSystemOnline", "UpdateConfig"}
      /\ UNCHANGED <<parsed, at, m_devices, devices, call, stopping, heard, inits>>
  <2>1. ASSUME NEW type \in TypeCodes, PostPkt(type) PROVE answer'.to = "PostPkt"
    BY <2>1 DEF PostPkt
  <2>2. ASSUME NEW slot \in Slots, NEW enable \in BOOLEAN, UpdateConfig(slot, enable)
        PROVE  answer'.to = "UpdateConfig"
    BY <2>2 DEF UpdateConfig
  <2>3. IsSystemOnline => answer'.to = "ECCS_IsSystemOnline"
    BY DEF IsSystemOnline
  <2>. QED
    BY <2>1, <2>2, <2>3 DEF PostPkt, IsSystemOnline, UpdateConfig
<1>2. /\ file' \in Seq(SectionType) /\ DistinctSlots(file)' /\ writes' \in 0..MaxWrites
  <2>1. CASE file' = file /\ writes' = writes
    BY <2>1 DEF IInv, WellTyped, DistinctSlots
  <2>2. ASSUME NEW slot \in Slots, NEW enable \in BOOLEAN, UpdateConfig(slot, enable)
        PROVE  /\ file' \in Seq(SectionType) /\ DistinctSlots(file)' /\ writes' \in 0..MaxWrites
    <3>1. writes' \in 0..MaxWrites
      BY <2>2, SectionsAssumption DEF UpdateConfig, IInv, WellTyped
    <3>2. CASE file' = file
      BY <3>1, <3>2 DEF IInv, WellTyped, DistinctSlots
    <3>3. ASSUME NEW found,
                 file' = [i \in DOMAIN file |->
                            IF i \in found THEN [file[i] EXCEPT !.enable = enable] ELSE file[i]]
          PROVE  file' \in Seq(SectionType) /\ DistinctSlots(file)'
      <4>1. file \in Seq(SectionType) /\ DOMAIN file = 1..Len(file)
        BY DEF IInv, WellTyped
      <4>2. ASSUME NEW i \in DOMAIN file
            PROVE  file'[i] \in SectionType /\ file'[i].slot = file[i].slot
        <5>1. file[i] \in SectionType
          BY <4>1
        <5>. QED
          BY <3>3, <5>1 DEF SectionType, SectionRecords
      <4>3. file' \in Seq(SectionType) /\ DOMAIN file' = DOMAIN file
        BY <3>3, <4>1, <4>2
      <4>. QED
        BY <4>2, <4>3 DEF IInv, WellTyped, DistinctSlots
    <3>. QED
      BY <2>2, <3>1, <3>2, <3>3 DEF UpdateConfig
  <2>. QED
    BY <2>1, <2>2 DEF PostPkt, IsSystemOnline
<1>3. WellTyped'
  BY <1>1, <1>2 DEF IInv, WellTyped, Ids, DistinctSlots
<1>. QED
  BY <1>1, <1>3 DEF IInv, TakenWasRead, MadeSoFar, InitIsComplete, Idle, RunsOrIsGone, StillToVisit,
                    DeletedIsSilent, ReleasedIsSilent, Managed, Ids

LEMMA ReportKeeps == ASSUME IInv, NEW d \in Ids, Report(d) PROVE IInv'
<1> DEFINE r == [devices[d] EXCEPT !.online = ~@]
<1>1. /\ devices[d].status \in {"running", "stopping"} /\ devices' = [devices EXCEPT ![d] = r]
      /\ heard' = (heard \/ devices[d].callback)
      /\ UNCHANGED <<file, parsed, at, m_devices, call, stopping, answer, inits, writes>>
  BY DEF Report
<1>2. devices[d] \in DeviceType
  BY DEF IInv, WellTyped, Ids
<1>3. /\ r \in DeviceType /\ r.slot = devices[d].slot
      /\ r.status = devices[d].status /\ r.callback = devices[d].callback
  BY <1>1, <1>2 DEF DeviceType
<1>4. WellTyped' /\ Ids' = Ids /\ devices'[d] = r /\ \A e \in Ids \ {d} : devices'[e] = devices[e]
  <2> HIDE DEF r
  <2>. QED
    BY <1>1, <1>3, OneDevice
<1>5. \A e \in Ids : devices'[e].status = devices[e].status /\ devices'[e].callback = devices[e].callback
  BY <1>1, <1>3, <1>4
<1>6. RunsOrIsGone'
  <2>1. Managed' = Managed
    BY <1>1 DEF Managed
  <2>. QED
    BY <1>1, <1>4, <1>5, <2>1 DEF IInv, RunsOrIsGone
<1>7. StillToVisit' /\ DeletedIsSilent'
  BY <1>1, <1>4, <1>5 DEF IInv, StillToVisit, DeletedIsSilent
<1>8. ReleasedIsSilent'
  BY <1>1, <1>4, <1>5 DEF IInv, ReleasedIsSilent
<1>. QED
  BY <1>1, <1>4, <1>6, <1>7, <1>8 DEF IInv, TakenWasRead, MadeSoFar, InitIsComplete, Idle

LEMMA NextInvariant == ReleasesFirst /\ IInv /\ [Next]_vars => IInv'
<1> SUFFICES ASSUME ReleasesFirst, IInv, [Next]_vars PROVE IInv'
  OBVIOUS
<1>1. CASE Next
  BY <1>1, InitKeeps, LoadKeeps, ReleaseBeginKeeps, StopBeginKeeps, StopReturnKeeps,
     ReleaseDeleteKeeps, ReleaseReturnKeeps, RegisterKeeps, OthersKeep, ReportKeeps DEF Next
<1>2. CASE UNCHANGED vars
  BY <1>2 DEF vars, IInv, WellTyped, Ids, DistinctSlots, TakenWasRead, MadeSoFar, InitIsComplete, Idle,
              RunsOrIsGone, StillToVisit, DeletedIsSilent, ReleasedIsSilent, Managed
<1>. QED
  BY <1>1, <1>2

-----------------------------------------------------------------------------
(* The theorems: sections have slots of their own, and the client releases
   before it initialises again. *)

THEOREM Invariance ==
  ASSUME ReleasesFirst, DistinctSlots(Sections)
  PROVE  ClientSpec => []IInv
<1>1. ClientInit => IInv
  BY Initially DEF ClientInit
<1>2. IInv /\ [ClientNext]_clientVars => IInv'
  <2>1. [ClientNext]_clientVars => [Next]_vars
    BY DEF ClientNext, clientVars, UseSdk, UseCommands, Gone
  <2>. QED
    BY <2>1, NextInvariant
<1>. QED
  BY <1>1, <1>2, PTL DEF ClientSpec

(* Whatever the configuration says, however often the client initialises,
   registers a callback, changes the configuration and releases, and whenever
   devices report: no device is lost, none used after its deletion, and none
   calls the client after ECCS_Release. *)
THEOREM DevicesStayOwned ==
  ASSUME ReleasesFirst, DistinctSlots(Sections)
  PROVE  ClientSpec => []DevicesAreOwned
<1>1. IInv => DevicesAreOwned
  <2> SUFFICES ASSUME IInv PROVE DevicesAreOwned
    OBVIOUS
  <2>1. TypeOK
    <3>1. ASSUME NEW d \in Ids PROVE devices[d].status \in {"running", "stopping", "stopped", "deleted"}
      <4>1. devices[d] \in DeviceType
        BY DEF IInv, WellTyped, Ids
      <4>. QED
        BY <4>1 DEF DeviceType
    <3>. QED
      BY <3>1 DEF IInv, WellTyped, TypeOK
  <2>2. OwnedIsAlive
    BY <2>1 DEF OwnedIsAlive, IInv, RunsOrIsGone, Idle
  <2>3. SilentAfterRelease
    BY DEF SilentAfterRelease, IInv, ReleasedIsSilent, Idle
  <2>. QED
    BY <2>2, <2>3 DEF DevicesAreOwned
<1>. QED
  BY <1>1, Invariance, PTL

(* An ECCS_Init that succeeded has made a device for every section that passes
   the checks, whatever is wrong with the others. *)
THEOREM EverySectionCounts ==
  ASSUME ReleasesFirst, DistinctSlots(Sections)
  PROVE  ClientSpec => []InitIsComplete
<1>1. IInv => InitIsComplete
  BY DEF IInv
<1>. QED
  BY <1>1, Invariance, PTL

-----------------------------------------------------------------------------
(* What the text of an ID is a number of                                   *)

(* A set of numbers that has 0, and with a number the next, has all of them. *)
LEMMA AllNumbers ==
  ASSUME NEW S, 0 \in S, \A n \in Nat : n \in S => n + 1 \in S
  PROVE  Nat \subseteq S
<1> SUFFICES ASSUME Nat \ S # {} PROVE FALSE
  OBVIOUS
<1>1. /\ First(Nat \ S) \in Nat \ S
      /\ \A t \in Nat \ S : First(Nat \ S) <= t
  BY FirstIsOne
<1>2. First(Nat \ S) - 1 \in Nat /\ First(Nat \ S) - 1 \in S
  BY <1>1
<1>. QED
  BY <1>1, <1>2

(* The values of longer and longer beginnings of the digits. *)
Value(digits, base, n, f) ==
  f = [k \in 0..n |-> IF k = 0 THEN 0 ELSE f[k - 1] * base + digits[k]]

LEMMA ValueExists ==
  ASSUME NEW digits \in Seq(Nat), NEW base \in Nat
  PROVE  \E f \in [0..Len(digits) -> Nat] : Value(digits, base, Len(digits), f)
<1> DEFINE S == {n \in Nat : n <= Len(digits) => \E f \in [0..n -> Nat] : Value(digits, base, n, f)}
<1>1. 0 \in S
  <2>1. [k \in 0..0 |-> 0] \in [0..0 -> Nat] /\ Value(digits, base, 0, [k \in 0..0 |-> 0])
    BY DEF Value
  <2>. QED
    BY <2>1
<1>2. ASSUME NEW n \in Nat, n \in S PROVE n + 1 \in S
  <2> SUFFICES ASSUME n + 1 <= Len(digits)
               PROVE  \E f \in [0..(n + 1) -> Nat] : Value(digits, base, n + 1, f)
    OBVIOUS
  <2>1. PICK f \in [0..n -> Nat] : Value(digits, base, n, f)
    BY <1>2
  <2> DEFINE last == f[n] * base + digits[n + 1]
             g == [k \in 0..(n + 1) |-> IF k = n + 1 THEN last ELSE f[k]]
  <2>2. last \in Nat
    <3>1. f[n] \in Nat /\ digits[n + 1] \in Nat
      OBVIOUS
    <3>2. \A x, y, z \in Nat : x * y + z \in Nat
      OBVIOUS
    <3>. QED
      BY <3>1, <3>2
  <2>3. g \in [0..(n + 1) -> Nat]
    <3> HIDE DEF last
    <3>. QED
      BY <2>2
  <2>4. ASSUME NEW k \in 0..(n + 1)
        PROVE  g[k] = IF k = 0 THEN 0 ELSE g[k - 1] * base + digits[k]
    <3>1. CASE k = n + 1
      BY <3>1
    <3>2. CASE k # n + 1
      <4>1. k \in 0..n /\ g[k] = f[k] /\ (k # 0 => k - 1 \in 0..n /\ g[k - 1] = f[k - 1])
        BY <3>2
      <4>2. f[k] = IF k = 0 THEN 0 ELSE f[k - 1] * base + digits[k]
        BY <2>1, <4>1 DEF Value
      <4>. QED
        BY <4>1, <4>2
    <3>. QED
      BY <3>1, <3>2
  <2>5. Value(digits, base, n + 1, g)
    <3> HIDE DEF last
    <3>. QED
    BY <2>4 DEF Value
  <2>. QED
    BY <2>3, <2>5
<1>3. Nat \subseteq S
  <2> HIDE DEF S
  <2>. QED
    BY <1>1, <1>2, AllNumbers
<1>. QED
  BY <1>3

LEMMA NumeralIsNatural ==
  ASSUME NEW digits \in Seq(Nat), NEW base \in Nat
  PROVE  Numeral(digits, base) \in Nat
<1> DEFINE L == Len(digits)
           valid == {n \in 0..L : \A i \in 1..n : digits[i] < base}
           v == CHOOSE f : Value(digits, base, L, f)
           Left == {L - n : n \in valid}
<1>0. L \in Nat
  OBVIOUS
<1>1. v \in [0..L -> Nat]
  <2>1. PICK f \in [0..L -> Nat] : Value(digits, base, L, f)
    BY ValueExists
  <2>2. Value(digits, base, L, v)
    BY <2>1
  <2>3. DOMAIN v = 0..L
    BY <2>2 DEF Value
  <2> DEFINE S == {n \in Nat : n <= L => v[n] \in Nat}
  <2>4. 0 \in S
    <3>1. 0 \in 0..L
      BY <1>0
    <3>2. v[0] = 0
      <4> HIDE DEF v, L
      <4>. QED
        BY <2>2, <3>1 DEF Value
    <3>. QED
      BY <3>2
  <2>5. ASSUME NEW n \in Nat, n \in S PROVE n + 1 \in S
    <3> SUFFICES ASSUME n + 1 <= L PROVE v[n + 1] \in Nat
      OBVIOUS
    <3>1. v[n + 1] = v[n] * base + digits[n + 1]
      <4>1. n + 1 \in 0..L /\ n + 1 # 0 /\ (n + 1) - 1 = n
        BY <1>0
      <4> HIDE DEF v, L
      <4>2. v[n + 1] = IF n + 1 = 0 THEN 0 ELSE v[(n + 1) - 1] * base + digits[n + 1]
        BY <2>2, <4>1 DEF Value
      <4>. QED
        BY <4>1, <4>2
    <3>2. v[n] \in Nat /\ digits[n + 1] \in Nat
      BY <2>5
    <3>3. \A x, y, z \in Nat : x * y + z \in Nat
      OBVIOUS
    <3> HIDE DEF v
    <3>. QED
      BY <3>1, <3>2, <3>3
  <2>6. \A n \in 0..L : v[n] \in Nat
    <3>1. Nat \subseteq S
      <4> HIDE DEF S
      <4>. QED
        BY <2>4, <2>5, AllNumbers
    <3>. QED
      BY <3>1
  <2>7. v = [n \in 0..L |-> v[n]]
    BY <2>2 DEF Value
  <2>. QED
    BY <2>6, <2>7
<1>2. \E n \in valid : \A m \in valid : m <= n
  <2>1. 0 \in valid /\ L - 0 \in Left /\ Left \subseteq Nat
    OBVIOUS
  <2>2. First(Left) \in Left /\ \A t \in Left : First(Left) <= t
    BY <2>1, FirstIsOne
  <2>3. PICK n \in valid : First(Left) = L - n
    BY <2>2
  <2>4. ASSUME NEW m \in valid PROVE m <= n
    <3>1. L - m \in Left /\ m \in Nat /\ n \in Nat
      OBVIOUS
    <3>2. L - n <= L - m
      <4> HIDE DEF L, Left
      <4>. QED
        BY <2>2, <2>3, <3>1
    <3>. QED
      BY <1>0, <3>1, <3>2
  <2>. QED
    BY <2>4
<1>3. (CHOOSE n \in valid : \A m \in valid : m <= n) \in 0..L
  BY <1>2
<1>4. Numeral(digits, base) = v[CHOOSE n \in valid : \A m \in valid : m <= n]
  BY DEF Numeral, Value
<1>. QED
  BY <1>1, <1>3, <1>4

(* Bits 24 and up are not touched by what GetOID() takes away. *)
LEMMA TypeOfId ==
  ASSUME NEW x \in Nat
  PROVE  GetType(GetOID(x)) = GetType(x)
<1>1. 2^8 = 256 /\ 2^24 = 16777216
  BY SMT
<1>2. \E q \in Nat, r \in 0..255 : x = 256 * q + r
  <2>1. x \div 256 \in Nat /\ x % 256 \in 0..255 /\ x = 256 * (x \div 256) + (x % 256)
    BY SMT
  <2>. QED
    BY <2>1
<1>3. PICK q \in Nat, r \in 0..255 : x = 256 * q + r
  BY <1>2
<1>4. x % 256 = r
  BY <1>3
<1>5. (256 * q) \div 16777216 = q \div 65536
  BY SMT
<1>6. (256 * q + r) \div 16777216 = q \div 65536
  BY SMT
<1>. QED
  BY <1>1, <1>3, <1>4, <1>5, <1>6 DEF GetType, GetOID

(* The number an ID written in hexadecimal stands for is of its class's type. *)
LEMMA IdHasItsType ==
  ASSUME NEW sec \in SectionType, sec.id.prefixed, Accepts(sec)
  PROVE  GetType(DeviceId(sec)) = GetType(OIDOfModel(sec.model))
<1>1. DeviceId(sec) = Strtoul(sec.id, 16)
  BY DEF DeviceId, Strtoul
<1>2. sec.id.digits \in Seq(Nat)
  <2>1. sec.id.digits \in Seq(0..15)
    BY DEF SectionType, SectionRecords
  <2>. QED
    BY <2>1
<1>3. DeviceId(sec) \in Nat
  BY <1>1, <1>2, NumeralIsNatural DEF Strtoul
<1>4. GetOID(DeviceId(sec)) = OIDOfModel(sec.model)
  BY <1>1 DEF Accepts
<1>. QED
  BY <1>3, <1>4, TypeOfId

-----------------------------------------------------------------------------
(* Which device a control call reaches: a device calls itself what its class  *)
(* is called, where IDs are written in hexadecimal.                           *)

Hexadecimal(secs) == \A i \in DOMAIN secs : secs[i].id.prefixed

KindInv ==
  /\ Hexadecimal(file) /\ Hexadecimal(parsed)
  /\ \A d \in Ids : GetType(devices[d].m_deviceID) = GetType(devices[d].oid)
  /\ Idle /\ answer.to = "PostPkt" /\ answer.is = "ECCS_SUCCESS" => answer.device \in Ids
  /\ PacketsReachTheirKind

LEMMA PostReaches ==
  ASSUME IInv, KindInv, NEW type \in TypeCodes, PostPkt(type)
  PROVE  PacketsReachTheirKind' /\ (answer'.is = "ECCS_SUCCESS" => answer'.device \in Ids)
<1>1. /\ call = "none" /\ UNCHANGED <<m_devices, devices, call>>
      /\ \A s \in DOMAIN m_devices : m_devices[s] \in Ids
      /\ \A d \in Managed : d \in Ids /\ devices[d].status = "running"
      /\ \A d \in Ids : GetType(devices[d].m_deviceID) = GetType(devices[d].oid)
  BY DEF PostPkt, IInv, KindInv, WellTyped, RunsOrIsGone, Managed
<1>2. CASE OfType(type) = {}
  <2>1. answer' = [to |-> "PostPkt", type |-> type, is |-> "ECCS_ERR_DEV_NOT_FOUND"]
    BY <1>2 DEF PostPkt
  <2>2. ASSUME NEW d \in Managed PROVE GetType(devices[d].oid) # type
    <3>1. PICK s \in DOMAIN m_devices : m_devices[s] = d
      BY DEF Managed
    <3>2. GetType(devices[d].m_deviceID) # type
      BY <1>2, <3>1 DEF OfType
    <3>. QED
      BY <1>1, <3>2
  <2>. QED
    BY <1>1, <2>1, <2>2 DEF PacketsReachTheirKind, Managed, Ids
<1>3. CASE OfType(type) # {}
  <2> DEFINE s == First(OfType(type))
             d == m_devices[s]
  <2>1. s \in OfType(type)
    <3>1. OfType(type) \subseteq Nat
      BY SlotsAreNumbers DEF OfType, IInv, WellTyped
    <3>. QED
      BY <1>3, <3>1, FirstIsOne
  <2>2. s \in DOMAIN m_devices /\ d \in Managed /\ GetType(devices[d].m_deviceID) = type
    BY <2>1 DEF OfType, Managed
  <2>3. GetType(devices[d].oid) = type /\ devices[d].status = "running" /\ d \in Ids
    BY <1>1, <2>2
  <2>4. answer' = [to |-> "PostPkt", type |-> type, is |-> "ECCS_SUCCESS", device |-> d]
    BY <1>3 DEF PostPkt
  <2> HIDE DEF d
  <2>. QED
    BY <1>1, <2>3, <2>4 DEF PacketsReachTheirKind
<1>. QED
  BY <1>2, <1>3

(* Devices that keep what they are called, and an answer that stays or says
   nothing of a device. *)
LEMMA KindsStay ==
  ASSUME IInv, KindInv, Ids' = Ids,
         \A d \in Ids : devices'[d].m_deviceID = devices[d].m_deviceID /\ devices'[d].oid = devices[d].oid
  PROVE  \A d \in Ids' : GetType(devices'[d].m_deviceID) = GetType(devices'[d].oid)
BY DEF KindInv

LEMMA KindStep == ReleasesFirst /\ IInv /\ KindInv /\ [Next]_vars => KindInv'
<1> SUFFICES ASSUME ReleasesFirst, IInv, KindInv, [Next]_vars PROVE KindInv'
  OBVIOUS
<1>1. devices \in Seq(DeviceType) /\ Ids = 1..Len(devices)
  BY DEF IInv, WellTyped, Ids
<1>2. CASE InitParse
  BY <1>2 DEF InitParse, KindInv, Hexadecimal, PacketsReachTheirKind, Idle, Ids
<1>3. CASE LoadSection
  <2> DEFINE sec == parsed[at]
             made == [slot |-> sec.slot, oid |-> OIDOfModel(sec.model), m_deviceID |-> DeviceId(sec),
                      status |-> "running", online |-> FALSE, callback |-> FALSE]
  <2>1. /\ at \in DOMAIN parsed /\ sec \in SectionType /\ call' = "ECCS_Init"
        /\ UNCHANGED <<file, parsed>>
    BY <1>3 DEF LoadSection, IInv, WellTyped
  <2>2. ASSUME NEW d \in Ids' PROVE GetType(devices'[d].m_deviceID) = GetType(devices'[d].oid)
    <3>1. CASE devices' = devices
      BY <3>1 DEF KindInv, Ids
    <3>2. CASE Accepts(sec) /\ devices' = Append(devices, made)
      <4>1. GetType(made.m_deviceID) = GetType(made.oid)
        <5>1. sec.id.prefixed
          BY <2>1 DEF KindInv, Hexadecimal
        <5>. QED
          BY <2>1, <3>2, <5>1, IdHasItsType
      <4>2. (d \in Ids /\ devices'[d] = devices[d]) \/ devices'[d] = made
        <5> HIDE DEF made
        <5>. QED
          BY <1>1, <3>2 DEF Ids
      <4> HIDE DEF made
      <4>. QED
        BY <4>1, <4>2 DEF KindInv
    <3>. QED
      BY <1>3, <3>1, <3>2 DEF LoadSection
  <2>. QED
    BY <2>1, <2>2 DEF KindInv, Hexadecimal, PacketsReachTheirKind, Idle
<1>4. CASE InitReturn \/ ReleaseBegin \/ ReleaseReturn \/ IsSystemOnline
  BY <1>4 DEF InitReturn, ReleaseBegin, ReleaseReturn, IsSystemOnline, KindInv, Hexadecimal,
              PacketsReachTheirKind, Idle, Ids
<1>5. CASE StopBegin \/ StopReturn \/ ReleaseDelete
  <2> DEFINE d == m_devices[First(stopping)]
  <2>1. call' = "ECCS_Release" /\ UNCHANGED <<file, parsed>>
    BY <1>5 DEF StopBegin, StopReturn, ReleaseDelete
  <2>2. /\ Ids' = Ids
        /\ \A e \in Ids : devices'[e].m_deviceID = devices[e].m_deviceID /\ devices'[e].oid = devices[e].oid
    <3>1. ASSUME NEW e \in Ids PROVE devices[e] \in DeviceType
      BY <1>1
    <3>2. ASSUME NEW e \in Ids
          PROVE  devices'[e].m_deviceID = devices[e].m_deviceID /\ devices'[e].oid = devices[e].oid
      BY <1>1, <1>5, <3>1 DEF StopBegin, StopReturn, ReleaseDelete, DeviceType
    <3>. QED
      BY <1>1, <1>5, <3>2 DEF StopBegin, StopReturn, ReleaseDelete, Ids
  <2>. QED
    BY <2>1, <2>2, KindsStay DEF KindInv, Hexadecimal, PacketsReachTheirKind, Idle
<1>6. CASE RegisterCallback
  <2>1. answer'.to = "ECCS_RegisterCallback" /\ UNCHANGED <<file, parsed>>
    BY <1>6 DEF RegisterCallback
  <2>2. /\ Ids' = Ids
        /\ \A e \in Ids : devices'[e].m_deviceID = devices[e].m_deviceID /\ devices'[e].oid = devices[e].oid
    <3>1. ASSUME NEW e \in Ids PROVE devices[e] \in DeviceType
      BY <1>1
    <3>2. ASSUME NEW e \in Ids
          PROVE  devices'[e].m_deviceID = devices[e].m_deviceID /\ devices'[e].oid = devices[e].oid
      BY <1>6, <3>1 DEF RegisterCallback, DeviceType
    <3>. QED
      BY <1>1, <1>6, <3>2 DEF RegisterCallback, Ids
  <2>. QED
    BY <2>1, <2>2, KindsStay DEF KindInv, Hexadecimal, PacketsReachTheirKind
<1>7. ASSUME NEW type \in TypeCodes, PostPkt(type) PROVE KindInv'
  BY <1>7, PostReaches DEF PostPkt, KindInv, Hexadecimal, Ids
<1>8. ASSUME NEW slot \in Slots, NEW enable \in BOOLEAN, UpdateConfig(slot, enable) PROVE KindInv'
  <2>1. answer'.to = "UpdateConfig" /\ UNCHANGED <<parsed, devices>>
    BY <1>8 DEF UpdateConfig
  <2>2. ASSUME NEW found,
               file' = [i \in DOMAIN file |-> IF i \in found THEN [file[i] EXCEPT !.enable = enable] ELSE file[i]]
        PROVE  Hexadecimal(file)'
    <3>1. file \in Seq(SectionType)
      BY DEF IInv, WellTyped
    <3>2. ASSUME NEW i \in DOMAIN file PROVE file'[i].id = file[i].id
      <4>1. file[i] \in SectionType
        BY <3>1
      <4>. QED
        BY <2>2, <4>1 DEF SectionType, SectionRecords
    <3>. QED
      BY <2>2, <3>2 DEF KindInv, Hexadecimal
  <2>3. Hexadecimal(file)'
    BY <1>8, <2>2 DEF UpdateConfig, KindInv, Hexadecimal
  <2>. QED
    BY <2>1, <2>3 DEF KindInv, Hexadecimal, PacketsReachTheirKind, Ids
<1>9. ASSUME NEW d \in Ids, Report(d) PROVE KindInv'
  <2>1. /\ devices' = [devices EXCEPT ![d].online = ~@]
        /\ UNCHANGED <<file, parsed, m_devices, call, answer>>
    BY <1>9 DEF Report
  <2>2. /\ Ids' = Ids
        /\ \A e \in Ids : /\ devices'[e].m_deviceID = devices[e].m_deviceID
                          /\ devices'[e].oid = devices[e].oid /\ devices'[e].status = devices[e].status
    BY <1>1, <2>1 DEF Ids, DeviceType
  <2>3. Managed \subseteq Ids /\ Managed' = Managed
    BY <2>1 DEF Managed, IInv, WellTyped
  <2>4. PacketsReachTheirKind'
    BY <2>1, <2>2, <2>3 DEF KindInv, PacketsReachTheirKind, Idle
  <2>. QED
    BY <2>1, <2>2, <2>4, KindsStay DEF KindInv, Hexadecimal, Idle
<1>10. CASE UNCHANGED vars
  BY <1>10 DEF vars, KindInv, Hexadecimal, PacketsReachTheirKind, Idle, Ids, Managed
<1>. QED
  BY <1>2, <1>3, <1>4, <1>5, <1>6, <1>7, <1>8, <1>9, <1>10 DEF Next

(* A control call reaches a running device of the class that it is for, and
   answers that there is none only if none was made, where two sections name
   different slots, IDs are written in hexadecimal and the client releases
   before it initialises again; and ECCS_Init leaves out no section. *)
THEOREM CallsReachTheirDevice ==
  ASSUME ReleasesFirst, DistinctSlots(Sections), Hexadecimal(Sections)
  PROVE  ClientSpec => []DevicesAsConfigured
<1>1. ClientInit => KindInv
  BY DEF ClientInit, Init, KindInv, Hexadecimal, PacketsReachTheirKind, Ids
<1>2. IInv /\ KindInv /\ [ClientNext]_clientVars => KindInv'
  <2>1. [ClientNext]_clientVars => [Next]_vars
    BY DEF ClientNext, clientVars, UseSdk, UseCommands, Gone
  <2>. QED
    BY <2>1, KindStep
<1>3. IInv /\ KindInv => DevicesAsConfigured
  BY DEF IInv, KindInv, DevicesAsConfigured
<1>. QED
  BY <1>1, <1>2, <1>3, Invariance, PTL DEF ClientSpec

-----------------------------------------------------------------------------
(* The control calls: what the client asks for, and the threads of a device. *)

Packets == [event: {"PacketArrival"}, packet: {Path!Packet(c) : c \in Path!Calls}]
Tasks == Packets \cup {[event |-> "Heartbeat"]}
Events == Tasks \cup {[event |-> "Quit"]}
Asked == [call: Path!Calls, fate: {"queued", "sent", "dropped"}]
DeviceStates ==
  [m_devState: {"INITIALIZED", "OFFLINE", "CONNECTING", "ONLINE", "ERROR"},
   open: BOOLEAN, m_shuttingDown: BOOLEAN,
   m_state: {"UNINIT", "RUNNING", "QUIT", "STOPPED"},
   at: {"running", "stopping", "posted", "joining", "stopped"},
   worker: {"starting", "testing", "popping", "ended"}, late: 0..1]

\* The places of a queue that hold one of the events P, and the calls that wait.
Places(s, P) == {i \in DOMAIN s : s[i] \in P}
Waiting(s) == {i \in DOMAIN s : s[i].fate = "queued"}
Open == [call: Path!Calls, fate: {"queued"}]

\* How many events of a queue can take a number of a command, one each.
Todo(q) == Cardinality(Places(q, Tasks))

-----------------------------------------------------------------------------
(* Counting                                                                *)

LEMMA PlacesAreFinite ==
  ASSUME NEW T, NEW s \in Seq(T), NEW P
  PROVE  IsFiniteSet(Places(s, P)) /\ Cardinality(Places(s, P)) \in Nat
<1>1. IsFiniteSet(1..Len(s))
  BY FS_Interval
<1>2. Places(s, P) \subseteq 1..Len(s)
  BY DEF Places
<1>. QED
  BY <1>1, <1>2, FS_Subset, FS_CardinalityType

LEMMA PlacesOfAppend ==
  ASSUME NEW T, NEW s \in Seq(T), NEW e \in T, NEW P
  PROVE  Cardinality(Places(Append(s, e), P)) = Cardinality(Places(s, P)) + (IF e \in P THEN 1 ELSE 0)
<1> DEFINE n == Len(s) + 1
<1>1. DOMAIN Append(s, e) = 1..n /\ \A i \in 1..Len(s) : Append(s, e)[i] = s[i]
  OBVIOUS
<1>2. Append(s, e)[n] = e /\ DOMAIN s = 1..Len(s) /\ Len(s) \in Nat
  OBVIOUS
<1>3. CASE e \in P
  <2>1. Places(Append(s, e), P) = Places(s, P) \cup {n} /\ n \notin Places(s, P)
    BY <1>1, <1>2, <1>3 DEF Places
  <2>. QED
    BY <1>3, <2>1, PlacesAreFinite, FS_AddElement
<1>4. CASE e \notin P
  <2>1. Places(Append(s, e), P) = Places(s, P)
    BY <1>1, <1>2, <1>4 DEF Places
  <2>. QED
    BY <1>4, <2>1, PlacesAreFinite
<1>. QED
  BY <1>3, <1>4

LEMMA PlacesOfTail ==
  ASSUME NEW T, NEW s \in Seq(T), s # <<>>, NEW P
  PROVE  Cardinality(Places(Tail(s), P)) = Cardinality(Places(s, P)) - (IF Head(s) \in P THEN 1 ELSE 0)
<1> DEFINE rest == Places(Tail(s), P)
           left == Places(s, P) \ {1}
           next == [i \in rest |-> i + 1]
<1>1. /\ Tail(s) \in Seq(T) /\ Len(s) \in Nat \ {0} /\ DOMAIN s = 1..Len(s)
      /\ DOMAIN Tail(s) = 1..(Len(s) - 1) /\ Head(s) = s[1]
      /\ \A i \in 1..(Len(s) - 1) : Tail(s)[i] = s[i + 1]
  OBVIOUS
<1>2. next \in [rest -> left]
  BY <1>1 DEF Places
<1>3. \A a, b \in rest : next[a] = next[b] => a = b
  BY <1>1 DEF Places
<1>4. ASSUME NEW t \in left PROVE \E a \in rest : next[a] = t
  <2>1. t - 1 \in rest
    BY <1>1 DEF Places
  <2>. QED
    BY <1>1, <2>1 DEF Places
<1>5. next \in Bijection(rest, left)
  <2> HIDE DEF rest, left, next
  <2>. QED
    BY <1>2, <1>3, <1>4, Fun_IsBij
<1>6. Cardinality(rest) = Cardinality(left)
  <2>1. IsFiniteSet(rest)
    BY <1>1, PlacesAreFinite
  <2>2. ExistsBijection(rest, left)
    BY <1>5 DEF ExistsBijection
  <2> HIDE DEF rest, left
  <2>. QED
    BY <2>1, <2>2, FS_Bijection
<1>7. Head(s) \in P <=> 1 \in Places(s, P)
  BY <1>1 DEF Places
<1>8. Cardinality(left) = IF 1 \in Places(s, P) THEN Cardinality(Places(s, P)) - 1 ELSE Cardinality(Places(s, P))
  BY PlacesAreFinite, FS_RemoveElement
<1>. QED
  BY <1>6, <1>7, <1>8, PlacesAreFinite

LEMMA TodoCounts ==
  ASSUME NEW q \in Seq(Events)
  PROVE  /\ Todo(q) \in Nat
         /\ \A e \in Events : Todo(Append(q, e)) = IF e.event = "Quit" THEN Todo(q) ELSE Todo(q) + 1
         /\ q # <<>> => Todo(Tail(q)) = IF Head(q).event = "Quit" THEN Todo(q) ELSE Todo(q) - 1
<1>1. \A e \in Events : e \in Tasks <=> e.event # "Quit"
  BY DEF Events, Tasks, Packets
<1>2. Todo(q) \in Nat
  BY PlacesAreFinite DEF Todo
<1>3. ASSUME NEW e \in Events
      PROVE  Todo(Append(q, e)) = IF e.event = "Quit" THEN Todo(q) ELSE Todo(q) + 1
  <2>1. Todo(Append(q, e)) = Todo(q) + (IF e \in Tasks THEN 1 ELSE 0)
    BY PlacesOfAppend DEF Todo
  <2>. QED
    BY <1>1, <1>2, <2>1
<1>4. ASSUME q # <<>>
      PROVE  Todo(Tail(q)) = IF Head(q).event = "Quit" THEN Todo(q) ELSE Todo(q) - 1
  <2>1. Todo(Tail(q)) = Todo(q) - (IF Head(q) \in Tasks THEN 1 ELSE 0)
    BY <1>4, PlacesOfTail DEF Todo
  <2>2. Head(q) \in Events
    BY <1>4
  <2>. QED
    BY <1>1, <1>2, <2>1, <2>2
<1>. QED
  BY <1>2, <1>3, <1>4

\* The first call of s that waits is n; in t it has met its fate, and nothing else changed.
Settled(s, t, n, fate) ==
  /\ n \in Waiting(s) /\ \A j \in Waiting(s) : n <= j
  /\ Waiting(t) = Waiting(s) \ {n} /\ DOMAIN t = DOMAIN s /\ t[n].fate = fate
  /\ \A i \in DOMAIN s : t[i].call = s[i].call
  /\ \A i \in DOMAIN s \ {n} : t[i].fate = s[i].fate

LEMMA FirstSettled ==
  ASSUME NEW k \in Path!Kinds, asked = [l \in Path!Kinds |-> asked[l]], asked[k] \in Seq(Asked),
         NEW fate \in {"sent", "dropped"}, Waiting(asked[k]) # {}, Path!Settle(k, fate)
  PROVE  /\ asked' = [l \in Path!Kinds |-> asked'[l]] /\ asked'[k] \in Seq(Asked)
         /\ \A l \in Path!Kinds \ {k} : asked'[l] = asked[l]
         /\ \E n \in Waiting(asked[k]) : Settled(asked[k], asked'[k], n, fate)
<1> DEFINE first(i) == asked[k][i].fate = "queued" /\ \A j \in 1..(i - 1) : asked[k][j].fate # "queued"
           n == CHOOSE i \in DOMAIN asked[k] : first(i)
           m == First(Waiting(asked[k]))
<1>1. DOMAIN asked[k] = 1..Len(asked[k]) /\ Len(asked[k]) \in Nat
  OBVIOUS
<1>2. m \in Waiting(asked[k]) /\ \A t \in Waiting(asked[k]) : m <= t
  <2>1. Waiting(asked[k]) \subseteq Nat
    BY <1>1 DEF Waiting
  <2> HIDE DEF m
  <2>. QED
    BY <2>1, FirstIsOne DEF m
<1>3. n \in DOMAIN asked[k] /\ first(n)
  <2>1. m \in DOMAIN asked[k] /\ asked[k][m].fate = "queued"
    BY <1>2 DEF Waiting
  <2>2. ASSUME NEW j \in 1..(m - 1) PROVE asked[k][j].fate # "queued"
    <3>1. m \in 1..Len(asked[k])
      BY <1>1, <2>1
    <3> HIDE DEF m
    <3>2. j \in DOMAIN asked[k] /\ ~(m <= j)
      BY <1>1, <3>1
    <3>. QED
      BY <1>2, <3>2 DEF Waiting
  <2>3. \E i \in DOMAIN asked[k] : first(i)
    BY <2>1, <2>2
  <2>. QED
    BY <2>3
<1>4. asked' = [asked EXCEPT ![k][n].fate = fate]
  BY DEF Path!Settle
<1>5. n \in Waiting(asked[k]) /\ \A j \in Waiting(asked[k]) : n <= j
  <2> HIDE DEF n, m
  <2>1. n \in Waiting(asked[k])
    BY <1>3 DEF Waiting
  <2>2. ASSUME NEW j \in Waiting(asked[k]) PROVE n <= j
    <3>1. /\ j \in 1..Len(asked[k]) /\ n \in 1..Len(asked[k]) /\ asked[k][j].fate = "queued"
          /\ Len(asked[k]) \in Nat
      BY <1>1, <1>3 DEF Waiting
    <3>2. ~(j \in 1..(n - 1))
      BY <1>3, <3>1
    <3>. QED
      BY <3>1, <3>2
  <2>. QED
    BY <2>1, <2>2
<1> HIDE DEF n, m
<1>6. /\ asked'[k] = [asked[k] EXCEPT ![n].fate = fate]
      /\ asked' = [l \in Path!Kinds |-> asked'[l]] /\ \A l \in Path!Kinds \ {k} : asked'[l] = asked[l]
  BY <1>4
<1>7. asked[k][n] \in Asked /\ [asked[k][n] EXCEPT !.fate = fate] \in Asked
  <2>1. asked[k][n] \in Asked
    BY <1>1, <1>3
  <2>. QED
    BY <2>1 DEF Asked
<1>8. asked'[k] \in Seq(Asked)
  BY <1>1, <1>3, <1>6, <1>7
<1>9. /\ DOMAIN asked'[k] = DOMAIN asked[k]
      /\ \A i \in DOMAIN asked[k] \ {n} : asked'[k][i] = asked[k][i]
      /\ asked'[k][n].fate = fate /\ asked'[k][n].call = asked[k][n].call
  <2>1. DOMAIN asked'[k] = DOMAIN asked[k] /\ \A i \in DOMAIN asked[k] \ {n} : asked'[k][i] = asked[k][i]
    BY <1>6
  <2>2. asked'[k][n] = [asked[k][n] EXCEPT !.fate = fate]
    BY <1>3, <1>6
  <2>3. asked'[k][n].fate = fate /\ asked'[k][n].call = asked[k][n].call
    BY <1>7, <2>2 DEF Asked
  <2>. QED
    BY <2>1, <2>3
<1>10. Waiting(asked'[k]) = Waiting(asked[k]) \ {n}
  BY <1>9 DEF Waiting
<1>11. \A i \in DOMAIN asked[k] : asked'[k][i].call = asked[k][i].call
  BY <1>9
<1>12. \A i \in DOMAIN asked[k] \ {n} : asked'[k][i].fate = asked[k][i].fate
  BY <1>9
<1>13. Settled(asked[k], asked'[k], n, fate)
  BY <1>5, <1>9, <1>10, <1>11, <1>12 DEF Settled
<1>. QED
  BY <1>5, <1>6, <1>8, <1>13

-----------------------------------------------------------------------------
(* Connecting and sending leave the threads of a device where they are.    *)

SameLife(c, d) == c.at = d.at /\ c.worker = d.worker /\ c.m_state = d.m_state /\ c.late = d.late

LEMMA SetStateKeeps ==
  ASSUME NEW d \in DeviceStates, NEW s \in {"INITIALIZED", "OFFLINE", "CONNECTING", "ONLINE", "ERROR"}
  PROVE  Path!SetState(d, s) \in DeviceStates /\ SameLife(Path!SetState(d, s), d)
BY DEF DeviceStates, SameLife, Path!SetState

LEMMA ConnectKeeps ==
  ASSUME NEW d \in DeviceStates, NEW c \in Path!Connect(d)
  PROVE  c \in DeviceStates /\ SameLife(c, d)
<1>1. PICK t : t = Path!SetState(d, "CONNECTING")
  OBVIOUS
<1>2. PICK on : on = Path!SetState(t, "ONLINE")
  OBVIOUS
<1>3. PICK off : off = Path!SetState(t, "OFFLINE")
  OBVIOUS
<1>4. t \in DeviceStates /\ SameLife(t, d)
  BY <1>1, SetStateKeeps
<1>5. on \in DeviceStates /\ off \in DeviceStates /\ SameLife(on, d) /\ SameLife(off, d)
  BY <1>2, <1>3, <1>4, SetStateKeeps DEF SameLife
<1>6. c \in {d, [on EXCEPT !.open = TRUE], [off EXCEPT !.open = FALSE]}
  BY <1>1, <1>2, <1>3 DEF Path!Connect
<1>7. ASSUME NEW e \in DeviceStates, SameLife(e, d), NEW b \in BOOLEAN, c = [e EXCEPT !.open = b]
      PROVE  c \in DeviceStates /\ SameLife(c, d)
  BY <1>7 DEF DeviceStates, SameLife
<1>. QED
  BY <1>5, <1>6, <1>7 DEF SameLife

LEMMA SendKeeps ==
  ASSUME NEW d \in DeviceStates, NEW r \in Path!Send(d)
  PROVE  r.dev \in DeviceStates /\ SameLife(r.dev, d)
<1>1. PICK c \in Path!Connect(d) :
        \/ r = [dev |-> c, sent |-> FALSE] \/ r = [dev |-> c, sent |-> TRUE]
        \/ r = [dev |-> [Path!SetState(c, "ERROR") EXCEPT !.open = FALSE], sent |-> FALSE]
  BY DEF Path!Send
<1>2. c \in DeviceStates /\ SameLife(c, d)
  BY ConnectKeeps
<1>3. Path!SetState(c, "ERROR") \in DeviceStates /\ SameLife(Path!SetState(c, "ERROR"), d)
  BY <1>2, SetStateKeeps DEF SameLife
<1>4. /\ [Path!SetState(c, "ERROR") EXCEPT !.open = FALSE] \in DeviceStates
      /\ SameLife([Path!SetState(c, "ERROR") EXCEPT !.open = FALSE], d)
  BY <1>3 DEF DeviceStates, SameLife
<1>5. CASE r = [dev |-> c, sent |-> FALSE] \/ r = [dev |-> c, sent |-> TRUE]
  <2>1. r.dev = c
    BY <1>5
  <2>. QED
    BY <1>2, <2>1
<1>6. CASE r = [dev |-> [Path!SetState(c, "ERROR") EXCEPT !.open = FALSE], sent |-> FALSE]
  <2>1. r.dev = [Path!SetState(c, "ERROR") EXCEPT !.open = FALSE]
    BY <1>6
  <2>. QED
    BY <1>4, <2>1
<1>. QED
  BY <1>1, <1>5, <1>6

LEMMA TargetIsKind == \A c \in Path!Calls : Path!Target(c) \in Path!Kinds
<1>1. /\ Path!Types.LIGHT \in Path!Kinds /\ Path!Types.SOUND \in Path!Kinds
      /\ Path!Types.PTZ \in Path!Kinds
  BY DEF Path!Kinds
<1>2. ASSUME NEW c \in Path!Calls
      PROVE  Path!Target(c) \in {Path!Types.LIGHT, Path!Types.SOUND, Path!Types.PTZ}
  BY DEF Path!Target
<1>. QED
  BY <1>1, <1>2

-----------------------------------------------------------------------------
(* What a device hears.  CommandsArrive, for every number of calls and      *)
(* heartbeats: a frame says what its call meant, a frame is sent for the    *)
(* call that waits longest, and the calls that were sent are before all     *)
(* that wait.                                                               *)

Params == Texts \cup Volumes \cup 0..255 \cup {"none", "mic_broadcast", "idle"}
CommandNames ==
  {"start_play", "stop_play", "start_tts_play", "model_change", "set_vol", "online"}

\* What may lie on the wire to a device of a kind.
PelcoFrames == {f \in [1..7 -> 0..255] : Path!IsFrame(f)}
JsonFrames == [command: CommandNames, cseq: Nat, param: Params]
Frames(k) == IF k = Path!Types.SOUND THEN JsonFrames ELSE PelcoFrames

-----------------------------------------------------------------------------
(* What becomes of a call: the packet, the frame, what the device makes of it *)

LEMMA KindNumbers ==
  /\ Path!Types.LIGHT = 1 /\ Path!Types.SOUND = 2 /\ Path!Types.PTZ = 3 /\ Path!Kinds = {1, 2, 3}
BY DEF Path!Types, Path!Kinds

LEMMA RequestNumbers ==
  /\ Path!Rq.LightSwitch = 16908289 /\ Path!Rq.LightLevel = 16908290 /\ Path!Rq.LightStrobe = 16908291
  /\ Path!Rq.SoundPlay = 33685505 /\ Path!Rq.SoundStop = 33685506 /\ Path!Rq.SoundTTS = 33685507
  /\ Path!Rq.SoundMic = 33685508 /\ Path!Rq.SetSoundVolume = 33816577
  /\ Path!Rq.PtzMove = 50462721 /\ Path!Rq.PtzStop = 50462722 /\ Path!Rq.PtzPreset = 50462723
<1>1. 2^16 = 65536 /\ 2^24 = 16777216
  BY SMT
<1>2. /\ Path!Control(1, 1) = 16908289 /\ Path!Control(1, 2) = 16908290 /\ Path!Control(1, 3) = 16908291
      /\ Path!Control(2, 1) = 33685505 /\ Path!Control(2, 2) = 33685506 /\ Path!Control(2, 3) = 33685507
      /\ Path!Control(2, 4) = 33685508 /\ Path!Setting(2, 1) = 33816577
      /\ Path!Control(3, 1) = 50462721 /\ Path!Control(3, 2) = 50462722 /\ Path!Control(3, 3) = 50462723
  BY <1>1 DEF Path!Control, Path!Setting
<1>. QED
  BY <1>2, KindNumbers DEF Path!Rq

LEMMA BytesStay ==
  ASSUME NEW n \in 0..255
  PROVE  Path!u8(n) = n
<1>1. 2^8 = 256
  BY SMT
<1>. QED
  BY <1>1 DEF Path!u8

\* A frame of seven bytes, what its places hold, and that its sum is right.
Says(f, c2, d1, d2) == f \in PelcoFrames /\ f[4] = c2 /\ f[5] = d1 /\ f[6] = d2

LEMMA FrameIs ==
  ASSUME NEW c2 \in 0..255, NEW d1 \in 0..255, NEW d2 \in 0..255,
         NEW f, f = Path!Frame(1, 0, c2, d1, d2)
  PROVE  Says(f, c2, d1, d2)
<1>1. PICK sum : sum = Path!u8(1 + 0 + c2 + d1 + d2)
  OBVIOUS
<1>2. 2^8 = 256
  BY SMT
<1>3. sum = (1 + 0 + c2 + d1 + d2) % 256 /\ sum \in 0..255
  BY <1>1, <1>2 DEF Path!u8
<1>4. f = <<255, 1, 0, c2, d1, d2, sum>>
  BY <1>1 DEF Path!Frame
<1>5. /\ f[1] = 255 /\ f[2] = 1 /\ f[3] = 0 /\ f[4] = c2 /\ f[5] = d1 /\ f[6] = d2 /\ f[7] = sum
  BY <1>4
<1>6. Path!IsFrame(f)
  BY <1>3, <1>5 DEF Path!IsFrame
<1>7. f \in [1..7 -> 0..255]
  BY <1>3, <1>4
<1>. QED
  BY <1>5, <1>6, <1>7 DEF PelcoFrames, Says

\* The words of the loudspeaker's commands.
LEMMA JsonIs ==
  ASSUME NEW cmd \in CommandNames, NEW param \in Params, m_cseq \in Nat,
         NEW f, f = Path!BuildJson(cmd, param)
  PROVE  f \in JsonFrames /\ f.command = cmd /\ f.cseq = m_cseq + 1 /\ f.param = param
BY DEF Path!BuildJson, JsonFrames

LEMMA FramesAre == Frames(1) = PelcoFrames /\ Frames(2) = JsonFrames /\ Frames(3) = PelcoFrames
BY KindNumbers DEF Frames

\* The two frames of its own accord that the PTZ gets: the report of its angles.
LEMMA ReportIs ==
  ASSUME NEW on \in BOOLEAN, NEW f, f = Path!AngleReport(on)
  PROVE  f \in Frames(3) /\ Path!Own(3, f) /\ f[4] \in {9, 11}
<1>1. PICK c2 : c2 = IF on THEN 9 ELSE 11
  OBVIOUS
<1>2. c2 \in 0..255 /\ c2 \in {9, 11} /\ 0 \in 0..255 /\ 5 \in 0..255
  BY <1>1
<1>3. f = Path!Frame(1, 0, c2, 0, 5)
  BY <1>1 DEF Path!AngleReport
<1>4. Says(f, c2, 0, 5)
  BY <1>2, <1>3, FrameIs
<1>5. f[4] = c2 /\ f \in PelcoFrames
  BY <1>4 DEF Says
<1>6. Path!Own(3, f)
  BY KindNumbers DEF Path!Own
<1>. QED
  BY <1>2, <1>5, <1>6, FramesAre

\* A call is of one of ten names, with what its name takes.
LEMMA CallIs ==
  ASSUME NEW c \in Path!Calls
  PROVE  \/ c.name = "Light_SetSwitch" /\ c.isOpen \in {0, 1} /\ c = [name |-> c.name, isOpen |-> c.isOpen]
         \/ c.name = "Light_SetStrobe" /\ c.isOpen \in {0, 1} /\ c = [name |-> c.name, isOpen |-> c.isOpen]
         \/ c.name = "Sound_SetMic" /\ c.isOpen \in {0, 1} /\ c = [name |-> c.name, isOpen |-> c.isOpen]
         \/ c.name = "Light_SetLevel" /\ c.level \in 0..100 /\ c = [name |-> c.name, level |-> c.level]
         \/ c.name = "PTZ_Move" /\ c.action \in 1..5 /\ c.speed \in 0..64
              /\ c = [name |-> c.name, action |-> c.action, speed |-> c.speed]
         \/ c.name = "PTZ_Preset" /\ c.action \in {1, 2} /\ c.index \in 1..255
              /\ c = [name |-> c.name, action |-> c.action, index |-> c.index]
         \/ c.name = "Sound_Play" /\ c.filename \in Texts /\ c = [name |-> c.name, filename |-> c.filename]
         \/ c.name = "Sound_Stop" /\ c = [name |-> c.name]
         \/ c.name = "Sound_SetVolume" /\ c.volume \in 0..100 /\ c = [name |-> c.name, volume |-> c.volume]
         \/ c.name = "Sound_TTS" /\ c.text \in Texts /\ c = [name |-> c.name, text |-> c.text]
<1>1. CASE c \in [name: {"Light_SetSwitch", "Light_SetStrobe", "Sound_SetMic"}, isOpen: {0, 1}]
  BY <1>1
<1>2. CASE c \in [name: {"Light_SetLevel"}, level: Levels]
  BY <1>2, CommandsAssumption
<1>3. CASE c \in [name: {"PTZ_Move"}, action: 1..5, speed: Speeds]
  BY <1>3, CommandsAssumption
<1>4. CASE c \in [name: {"PTZ_Preset"}, action: {1, 2}, index: Indexes]
  BY <1>4, CommandsAssumption
<1>5. CASE c \in [name: {"Sound_Play"}, filename: Texts]
  BY <1>5
<1>6. CASE c \in [name: {"Sound_Stop"}]
  BY <1>6
<1>7. CASE c \in [name: {"Sound_SetVolume"}, volume: Volumes]
  BY <1>7, CommandsAssumption
<1>8. CASE c \in [name: {"Sound_TTS"}, text: Texts]
  BY <1>8
<1>. QED
  BY <1>1, <1>2, <1>3, <1>4, <1>5, <1>6, <1>7, <1>8 DEF Path!Calls

\* What a call becomes: the packet, and what the handler makes of it.
LEMMA PacketIs ==
  ASSUME NEW c
  PROVE  /\ c.name = "Light_SetSwitch" => Path!Packet(c) = [id |-> Path!Rq.LightSwitch, data |-> c.isOpen # 0]
         /\ c.name = "Light_SetLevel" => Path!Packet(c) = [id |-> Path!Rq.LightLevel, data |-> Path!u8(c.level)]
         /\ c.name = "Light_SetStrobe" => Path!Packet(c) = [id |-> Path!Rq.LightStrobe, data |-> c.isOpen # 0]
         /\ c.name = "PTZ_Move" =>
              Path!Packet(c) = [id |-> Path!Rq.PtzMove, data |-> <<Path!u8(c.action), Path!u8(c.speed)>>]
         /\ c.name = "PTZ_Preset" =>
              Path!Packet(c) = [id |-> Path!Rq.PtzPreset, data |-> <<Path!u8(c.action), Path!u8(c.index)>>]
         /\ c.name = "Sound_Play" => Path!Packet(c) = [id |-> Path!Rq.SoundPlay, data |-> c.filename]
         /\ c.name = "Sound_Stop" => Path!Packet(c) = [id |-> Path!Rq.SoundStop, data |-> "none"]
         /\ c.name = "Sound_SetVolume" =>
              Path!Packet(c) = [id |-> Path!Rq.SetSoundVolume, data |-> Path!u8(c.volume)]
         /\ c.name = "Sound_TTS" => Path!Packet(c) = [id |-> Path!Rq.SoundTTS, data |-> c.text]
         /\ c.name = "Sound_SetMic" => Path!Packet(c) = [id |-> Path!Rq.SoundMic, data |-> c.isOpen # 0]
BY DEF Path!Packet

LEMMA HandlerIs ==
  ASSUME NEW p
  PROVE  /\ p.id = Path!Rq.LightSwitch => Path!Handler(p) = Path!SetSwitch(p.data)
         /\ p.id = Path!Rq.LightLevel => Path!Handler(p) = Path!SetBrightness(p.data)
         /\ p.id = Path!Rq.LightStrobe => Path!Handler(p) = Path!SetStrobe(p.data)
         /\ p.id = Path!Rq.PtzMove => Path!Handler(p) = Path!PtzMove(p.data[1], p.data[2])
         /\ p.id = Path!Rq.PtzPreset => Path!Handler(p) = Path!PtzPreset(p.data[1], p.data[2])
         /\ p.id = Path!Rq.SoundPlay => Path!Handler(p) = Path!PlayFile(p.data)
         /\ p.id = Path!Rq.SoundStop => Path!Handler(p) = Path!StopPlay
         /\ p.id = Path!Rq.SoundTTS => Path!Handler(p) = Path!TTSPlay(p.data)
         /\ p.id = Path!Rq.SoundMic => Path!Handler(p) = Path!SetMic(p.data)
         /\ p.id = Path!Rq.SetSoundVolume => Path!Handler(p) = Path!SetVolume(p.data)
BY RequestNumbers DEF Path!Handler

\* The level of 0 to 100 comes back from the brightness of 0 to 255.
LEMMA LevelComesBack ==
  ASSUME NEW level \in 0..100, NEW f, NEW current, current = (level * 255) \div 100,
         Says(f, 159, current \div 2^8, current % 2^8)
  PROVE  current \in 0..255 /\ Path!LevelOf(f) = level
<1>1. 2^8 = 256
  BY SMT
<1>2. current \in 0..255
  OBVIOUS
<1>3. current \div 256 = 0 /\ current % 256 = current
  BY <1>2
<1>4. f[5] = 0 /\ f[6] = current
  BY <1>1, <1>3 DEF Says
<1>5. (current * 100 + 254) \div 255 = level
  OBVIOUS
<1>6. (0 * 256 + current) * 100 + 254 = current * 100 + 254
  BY <1>2
<1>. QED
  BY <1>2, <1>4, <1>5, <1>6 DEF Path!LevelOf

\* A frame for a call: of the device's protocol, none of the device's own, and understood.
Understandable(c, f) ==
  /\ f \in Frames(Path!Target(c)) /\ ~Path!Own(Path!Target(c), f)
  /\ Path!Understood(Path!Target(c), f) = Path!Meant(c)
  /\ Path!Target(c) = Path!Types.SOUND => f.cseq = m_cseq + 1

LEMMA LightUnderstood ==
  ASSUME NEW c \in Path!Calls, c.name \in {"Light_SetSwitch", "Light_SetStrobe", "Light_SetLevel"},
         NEW f, f = Path!Handler(Path!Packet(c))
  PROVE  Understandable(c, f)
<1>1. Path!Target(c) = 1 /\ Path!Meant(c) = c
  BY KindNumbers DEF Path!Target, Path!Meant
<1>2. ~Path!Own(1, f)
  BY KindNumbers DEF Path!Own
<1>3. PICK p : p = Path!Packet(c)
  OBVIOUS
<1>4. ASSUME NEW c2 \in 0..255, Says(f, c2, 0, 0)
      PROVE  f \in Frames(1) /\ f[4] = c2
  BY <1>4, FramesAre DEF Says
<1>5. CASE c.name = "Light_SetSwitch"
  <2>1. c.isOpen \in {0, 1} /\ c = [name |-> "Light_SetSwitch", isOpen |-> c.isOpen]
    BY <1>5, CallIs
  <2>2. p.id = Path!Rq.LightSwitch /\ p.data = (c.isOpen # 0)
    BY <1>3, <1>5, PacketIs
  <2>3. PICK c2 : c2 = IF c.isOpen # 0 THEN 31 ELSE 47
    OBVIOUS
  <2>4. c2 \in 0..255 /\ c2 \in {31, 47} /\ 0 \in 0..255 /\ (c2 = 31 <=> c.isOpen = 1)
    BY <2>1, <2>3
  <2>5. f = Path!SetSwitch(p.data)
    BY <1>3, <2>2, HandlerIs
  <2>6. f = Path!Frame(1, 0, c2, 0, 0)
    BY <2>2, <2>3, <2>5 DEF Path!SetSwitch
  <2>7. Says(f, c2, 0, 0)
    BY <2>4, <2>6, FrameIs
  <2>8. f \in Frames(1) /\ f[4] = c2
    BY <1>4, <2>4, <2>7
  <2>9. Path!Understood(1, f) = c
    BY <2>1, <2>4, <2>8, KindNumbers DEF Path!Understood
  <2>. QED
    BY <1>1, <1>2, <2>8, <2>9, KindNumbers DEF Understandable
<1>6. CASE c.name = "Light_SetStrobe"
  <2>1. c.isOpen \in {0, 1} /\ c = [name |-> "Light_SetStrobe", isOpen |-> c.isOpen]
    BY <1>6, CallIs
  <2>2. p.id = Path!Rq.LightStrobe /\ p.data = (c.isOpen # 0)
    BY <1>3, <1>6, PacketIs
  <2>3. PICK c2 : c2 = IF c.isOpen # 0 THEN 63 ELSE 79
    OBVIOUS
  <2>4. c2 \in 0..255 /\ c2 \in {63, 79} /\ 0 \in 0..255 /\ (c2 = 63 <=> c.isOpen = 1)
    BY <2>1, <2>3
  <2>5. f = Path!SetStrobe(p.data)
    BY <1>3, <2>2, HandlerIs
  <2>6. f = Path!Frame(1, 0, c2, 0, 0)
    BY <2>2, <2>3, <2>5 DEF Path!SetStrobe
  <2>7. Says(f, c2, 0, 0)
    BY <2>4, <2>6, FrameIs
  <2>8. f \in Frames(1) /\ f[4] = c2
    BY <1>4, <2>4, <2>7
  <2>9. Path!Understood(1, f) = c
    BY <2>1, <2>4, <2>8, KindNumbers DEF Path!Understood
  <2>. QED
    BY <1>1, <1>2, <2>8, <2>9, KindNumbers DEF Understandable
<1>7. CASE c.name = "Light_SetLevel"
  <2>1. c.level \in 0..100 /\ c = [name |-> "Light_SetLevel", level |-> c.level]
    BY <1>7, CallIs
  <2>2. PICK current : current = (c.level * 255) \div 100
    OBVIOUS
  <2>3. 2^8 = 256
    BY SMT
  <2>4. /\ current \in 0..255 /\ current \div 2^8 \in 0..255 /\ current % 2^8 \in 0..255
        /\ c.level \in 0..255
    BY <2>1, <2>2, <2>3
  <2>5. p.id = Path!Rq.LightLevel /\ p.data = c.level
    BY <1>3, <1>7, <2>4, PacketIs, BytesStay
  <2>6. f = Path!SetBrightness(c.level)
    BY <1>3, <2>5, HandlerIs
  <2>7. f = Path!Frame(1, 0, 159, current \div 2^8, current % 2^8)
    BY <2>2, <2>6 DEF Path!SetBrightness
  <2>8. Says(f, 159, current \div 2^8, current % 2^8)
    <3>1. 159 \in 0..255
      OBVIOUS
    <3>. QED
      BY <2>4, <2>7, <3>1, FrameIs
  <2>9. Path!LevelOf(f) = c.level
    BY <2>1, <2>2, <2>8, LevelComesBack
  <2>10. f \in Frames(1) /\ f[4] = 159
    BY <2>8, FramesAre DEF Says
  <2>11. Path!Understood(1, f) = c
    BY <2>1, <2>9, <2>10, KindNumbers DEF Path!Understood
  <2>. QED
    BY <1>1, <1>2, <2>10, <2>11, KindNumbers DEF Understandable
<1>. QED
  BY <1>5, <1>6, <1>7

\* A frame of the PTZ that is no report of its angles.
Orders(f, c2, d1, d2) ==
  f \in Frames(3) /\ ~Path!Own(3, f) /\ f[4] = c2 /\ f[5] = d1 /\ f[6] = d2

LEMMA PtzUnderstood ==
  ASSUME NEW c \in Path!Calls, c.name \in {"PTZ_Move", "PTZ_Preset"},
         NEW f, f = Path!Handler(Path!Packet(c))
  PROVE  Understandable(c, f)
<1>1. Path!Target(c) = 3
  BY KindNumbers DEF Path!Target
<1>2. PICK p : p = Path!Packet(c)
  OBVIOUS
<1>3. ASSUME NEW c2 \in {0, 2, 3, 4, 7, 8, 16}, NEW d1 \in 0..255, NEW d2 \in 0..255,
             f = Path!Frame(1, 0, c2, d1, d2)
      PROVE  Orders(f, c2, d1, d2)
  <2>1. c2 \in 0..255 /\ c2 \notin {9, 11}
    OBVIOUS
  <2>2. Says(f, c2, d1, d2)
    BY <1>3, <2>1, FrameIs
  <2>3. f[4] = c2 /\ f[5] = d1 /\ f[6] = d2 /\ f \in Frames(3)
    BY <2>2, FramesAre DEF Says
  <2>4. f \notin {Path!AngleReport(TRUE), Path!AngleReport(FALSE)}
    <3>1. ASSUME NEW on \in BOOLEAN, f = Path!AngleReport(on) PROVE FALSE
      <4>1. f[4] \in {9, 11}
        BY <3>1, ReportIs
      <4>. QED
        BY <2>1, <2>3, <4>1
    <3>. QED
      BY <3>1
  <2>5. ~Path!Own(3, f)
    <3>1. 3 # Path!Types.SOUND
      BY KindNumbers
    <3>. QED
      BY <2>4, <3>1, Zenon DEF Path!Own
  <2>. QED
    BY <2>3, <2>5 DEF Orders
<1>4. CASE c.name = "PTZ_Move"
  <2>1. /\ c.action \in 1..5 /\ c.speed \in 0..64
        /\ c = [name |-> "PTZ_Move", action |-> c.action, speed |-> c.speed]
    BY <1>4, CallIs
  <2>2. c.action \in 0..255 /\ c.speed \in 0..255 /\ 0 \in 0..255
    BY <2>1
  <2>3. p.id = Path!Rq.PtzMove /\ p.data[1] = c.action /\ p.data[2] = c.speed
    <3>1. p = [id |-> Path!Rq.PtzMove, data |-> <<Path!u8(c.action), Path!u8(c.speed)>>]
      BY <1>2, <1>4, PacketIs
    <3>. QED
      BY <2>2, <3>1, BytesStay
  <2>4. f = Path!PtzMove(c.action, c.speed)
    BY <1>2, <2>3, HandlerIs
  <2>5. Path!Meant(c) = IF c.action = 5 THEN [name |-> "PTZ_Move", action |-> 5, speed |-> 0] ELSE c
    BY <1>4, <2>1 DEF Path!Meant
  <2>6. CASE c.action = 1
    <3>1. f = Path!Frame(1, 0, 8, 0, c.speed)
      BY <2>4, <2>6 DEF Path!PtzMove
    <3>2. Orders(f, 8, 0, c.speed)
      BY <1>3, <2>2, <3>1
    <3>3. Path!Understood(3, f) = [name |-> "PTZ_Move", action |-> 1, speed |-> f[6]]
      BY <3>2, KindNumbers DEF Orders, Path!Understood
    <3>. QED
      BY <1>1, <2>1, <2>5, <2>6, <3>2, <3>3, KindNumbers DEF Orders, Understandable
  <2>7. CASE c.action = 2
    <3>1. f = Path!Frame(1, 0, 16, 0, c.speed)
      BY <2>4, <2>7 DEF Path!PtzMove
    <3>2. Orders(f, 16, 0, c.speed)
      BY <1>3, <2>2, <3>1
    <3>3. Path!Understood(3, f) = [name |-> "PTZ_Move", action |-> 2, speed |-> f[6]]
      BY <3>2, KindNumbers DEF Orders, Path!Understood
    <3>. QED
      BY <1>1, <2>1, <2>5, <2>7, <3>2, <3>3, KindNumbers DEF Orders, Understandable
  <2>8. CASE c.action = 3
    <3>1. f = Path!Frame(1, 0, 4, c.speed, 0)
      BY <2>4, <2>8 DEF Path!PtzMove
    <3>2. Orders(f, 4, c.speed, 0)
      BY <1>3, <2>2, <3>1
    <3>3. Path!Understood(3, f) = [name |-> "PTZ_Move", action |-> 3, speed |-> f[5]]
      BY <3>2, KindNumbers DEF Orders, Path!Understood
    <3>. QED
      BY <1>1, <2>1, <2>5, <2>8, <3>2, <3>3, KindNumbers DEF Orders, Understandable
  <2>9. CASE c.action = 4
    <3>1. f = Path!Frame(1, 0, 2, c.speed, 0)
      BY <2>4, <2>9 DEF Path!PtzMove
    <3>2. Orders(f, 2, c.speed, 0)
      BY <1>3, <2>2, <3>1
    <3>3. Path!Understood(3, f) = [name |-> "PTZ_Move", action |-> 4, speed |-> f[5]]
      BY <3>2, KindNumbers DEF Orders, Path!Understood
    <3>. QED
      BY <1>1, <2>1, <2>5, <2>9, <3>2, <3>3, KindNumbers DEF Orders, Understandable
  <2>10. CASE c.action = 5
    <3>1. f = Path!Frame(1, 0, 0, 0, 0)
      BY <2>4, <2>10 DEF Path!PtzMove
    <3>2. Orders(f, 0, 0, 0)
      BY <1>3, <2>2, <3>1
    <3>3. Path!Understood(3, f) = [name |-> "PTZ_Move", action |-> 5, speed |-> 0]
      BY <3>2, KindNumbers DEF Orders, Path!Understood
    <3>. QED
      BY <1>1, <2>5, <2>10, <3>2, <3>3, KindNumbers DEF Orders, Understandable
  <2>. QED
    BY <2>1, <2>6, <2>7, <2>8, <2>9, <2>10
<1>5. CASE c.name = "PTZ_Preset"
  <2>1. /\ c.action \in {1, 2} /\ c.index \in 1..255
        /\ c = [name |-> "PTZ_Preset", action |-> c.action, index |-> c.index]
    BY <1>5, CallIs
  <2>2. c.action \in 0..255 /\ c.index \in 0..255 /\ 0 \in 0..255
    BY <2>1
  <2>3. p.id = Path!Rq.PtzPreset /\ p.data[1] = c.action /\ p.data[2] = c.index
    <3>1. p = [id |-> Path!Rq.PtzPreset, data |-> <<Path!u8(c.action), Path!u8(c.index)>>]
      BY <1>2, <1>5, PacketIs
    <3>. QED
      BY <2>2, <3>1, BytesStay
  <2>4. PICK c2 : c2 = IF c.action = 2 THEN 7 ELSE 3
    OBVIOUS
  <2>5. c2 \in {3, 7} /\ c2 \in {0, 2, 3, 4, 7, 8, 16} /\ (c2 = 7 <=> c.action = 2)
    BY <2>4
  <2>6. f = Path!PtzPreset(c.action, c.index)
    BY <1>2, <2>3, HandlerIs
  <2>7. f = Path!Frame(1, 0, c2, 0, c.index)
    BY <2>4, <2>6 DEF Path!PtzPreset
  <2>8. Orders(f, c2, 0, c.index)
    BY <1>3, <2>2, <2>5, <2>7
  <2>9. Path!Understood(3, f)
          = [name |-> "PTZ_Preset", action |-> IF f[4] = 7 THEN 2 ELSE 1, index |-> f[6]]
    BY <2>5, <2>8, KindNumbers DEF Orders, Path!Understood
  <2>10. Path!Meant(c) = c
    BY <1>5 DEF Path!Meant
  <2>. QED
    BY <1>1, <2>1, <2>5, <2>8, <2>9, <2>10, KindNumbers DEF Orders, Understandable
<1>. QED
  BY <1>4, <1>5

LEMMA SoundUnderstood ==
  ASSUME NEW c \in Path!Calls,
         c.name \in {"Sound_Play", "Sound_Stop", "Sound_SetVolume", "Sound_TTS", "Sound_SetMic"},
         m_cseq \in Nat, NEW f, f = Path!Handler(Path!Packet(c))
  PROVE  Understandable(c, f)
<1>1. Path!Target(c) = 2 /\ Path!Meant(c) = c
  BY KindNumbers DEF Path!Target, Path!Meant
<1>2. PICK p : p = Path!Packet(c)
  OBVIOUS
<1>3. ASSUME NEW cmd \in CommandNames \ {"online"}, NEW param \in Params, f = Path!BuildJson(cmd, param),
             Path!Understood(2, f) = c
      PROVE  Understandable(c, f)
  <2>1. f \in JsonFrames /\ f.command = cmd /\ f.cseq = m_cseq + 1
    BY <1>3, JsonIs
  <2>2. ~Path!Own(2, f)
    BY <2>1, KindNumbers DEF Path!Own
  <2>. QED
    BY <1>1, <1>3, <2>1, <2>2, FramesAre, KindNumbers DEF Understandable
<1>4. CASE c.name = "Sound_Play"
  <2>1. c.filename \in Params /\ c = [name |-> "Sound_Play", filename |-> c.filename]
    BY <1>4, CallIs DEF Params
  <2>2. f = Path!BuildJson("start_play", c.filename)
    BY <1>2, <1>4, PacketIs, HandlerIs DEF Path!PlayFile
  <2>3. "start_play" \in CommandNames \ {"online"}
    BY DEF CommandNames
  <2>4. f.command = "start_play" /\ f.param = c.filename
    BY <2>1, <2>2, <2>3, JsonIs
  <2>5. Path!Understood(2, f) = c
    BY <2>1, <2>4, KindNumbers DEF Path!Understood
  <2>. QED
    BY <1>3, <2>1, <2>2, <2>3, <2>5
<1>5. CASE c.name = "Sound_Stop"
  <2>1. "none" \in Params /\ c = [name |-> "Sound_Stop"]
    BY <1>5, CallIs DEF Params
  <2>2. f = Path!BuildJson("stop_play", "none")
    BY <1>2, <1>5, PacketIs, HandlerIs DEF Path!StopPlay
  <2>3. "stop_play" \in CommandNames \ {"online"}
    BY DEF CommandNames
  <2>4. f.command = "stop_play"
    BY <2>1, <2>2, <2>3, JsonIs
  <2>5. Path!Understood(2, f) = c
    BY <2>1, <2>4, KindNumbers DEF Path!Understood
  <2>. QED
    BY <1>3, <2>1, <2>2, <2>3, <2>5
<1>6. CASE c.name = "Sound_SetVolume"
  <2>1. c.volume \in 0..255 /\ c.volume \in Params /\ c = [name |-> "Sound_SetVolume", volume |-> c.volume]
    BY <1>6, CallIs DEF Params
  <2>2. f = Path!BuildJson("set_vol", c.volume)
    <3>1. p.id = Path!Rq.SetSoundVolume /\ p.data = c.volume
      BY <1>2, <1>6, <2>1, PacketIs, BytesStay
    <3>. QED
      BY <1>2, <3>1, HandlerIs DEF Path!SetVolume
  <2>3. "set_vol" \in CommandNames \ {"online"}
    BY DEF CommandNames
  <2>4. f.command = "set_vol" /\ f.param = c.volume
    BY <2>1, <2>2, <2>3, JsonIs
  <2>5. Path!Understood(2, f) = c
    BY <2>1, <2>4, KindNumbers DEF Path!Understood
  <2>. QED
    BY <1>3, <2>1, <2>2, <2>3, <2>5
<1>7. CASE c.name = "Sound_TTS"
  <2>1. c.text \in Params /\ c = [name |-> "Sound_TTS", text |-> c.text]
    BY <1>7, CallIs DEF Params
  <2>2. f = Path!BuildJson("start_tts_play", c.text)
    BY <1>2, <1>7, PacketIs, HandlerIs DEF Path!TTSPlay
  <2>3. "start_tts_play" \in CommandNames \ {"online"}
    BY DEF CommandNames
  <2>4. f.command = "start_tts_play" /\ f.param = c.text
    BY <2>1, <2>2, <2>3, JsonIs
  <2>5. Path!Understood(2, f) = c
    BY <2>1, <2>4, KindNumbers DEF Path!Understood
  <2>. QED
    BY <1>3, <2>1, <2>2, <2>3, <2>5
<1>8. CASE c.name = "Sound_SetMic"
  <2>1. c.isOpen \in {0, 1} /\ c = [name |-> "Sound_SetMic", isOpen |-> c.isOpen]
    BY <1>8, CallIs
  <2>2. PICK param : param = IF c.isOpen # 0 THEN "mic_broadcast" ELSE "idle"
    OBVIOUS
  <2>3. param \in Params /\ (param = "mic_broadcast" <=> c.isOpen = 1)
    BY <2>1, <2>2 DEF Params
  <2>4. f = Path!BuildJson("model_change", param)
    <3>1. p.id = Path!Rq.SoundMic /\ p.data = (c.isOpen # 0)
      BY <1>2, <1>8, PacketIs
    <3>2. f = Path!SetMic(p.data)
      BY <1>2, <3>1, HandlerIs
    <3>. QED
      BY <2>2, <3>1, <3>2 DEF Path!SetMic
  <2>5. "model_change" \in CommandNames \ {"online"}
    BY DEF CommandNames
  <2>6. f.command = "model_change" /\ f.param = param
    BY <2>3, <2>4, <2>5, JsonIs
  <2>7. Path!Understood(2, f) = c
    BY <2>1, <2>3, <2>6, KindNumbers DEF Path!Understood
  <2>. QED
    BY <1>3, <2>3, <2>4, <2>5, <2>7
<1>. QED
  BY <1>4, <1>5, <1>6, <1>7, <1>8

(* Whatever is called, the frame that is sent for it is understood as it was meant. *)
LEMMA CommandUnderstood ==
  ASSUME NEW c \in Path!Calls, m_cseq \in Nat, NEW f, f = Path!Handler(Path!Packet(c))
  PROVE  Understandable(c, f)
<1>1. \/ c.name \in {"Light_SetSwitch", "Light_SetStrobe", "Light_SetLevel"}
      \/ c.name \in {"PTZ_Move", "PTZ_Preset"}
      \/ c.name \in {"Sound_Play", "Sound_Stop", "Sound_SetVolume", "Sound_TTS", "Sound_SetMic"}
  BY CallIs
<1>. QED
  BY <1>1, LightUnderstood, PtzUnderstood, SoundUnderstood

-----------------------------------------------------------------------------
(* Numbers in the same order                                               *)

LEMMA OrderGrows ==
  ASSUME NEW A, NEW B, NEW of, Path!InOrder(of, A, B), A \subseteq Nat, B \subseteq Nat,
         NEW a \in Nat, NEW b \in Nat, \A x \in A : x < a, \A y \in B : y < b,
         NEW new, new = [x \in A \cup {a} |-> IF x = a THEN b ELSE of[x]]
  PROVE  Path!InOrder(new, A \cup {a}, B \cup {b})
<1>1. /\ of \in [A -> B] /\ \A y \in B : \E x \in A : of[x] = y
      /\ \A x, z \in A : x < z => of[x] < of[z]
  BY DEF Path!InOrder
<1>2. a \notin A /\ b \notin B
  OBVIOUS
<1>3. new[a] = b /\ \A x \in A : new[x] = of[x]
  BY <1>2
<1>4. new \in [A \cup {a} -> B \cup {b}]
  BY <1>1
<1>5. \A y \in B \cup {b} : \E x \in A \cup {a} : new[x] = y
  BY <1>1, <1>3
<1>6. ASSUME NEW x \in A \cup {a}, NEW z \in A \cup {a}, x < z PROVE new[x] < new[z]
  <2>1. CASE z = a
    <3>1. x \in A
      BY <1>6, <2>1
    <3>2. new[x] \in B /\ new[z] = b
      BY <1>1, <1>3, <2>1, <3>1
    <3>. QED
      BY <3>2
  <2>2. CASE z # a
    <3>1. z \in A /\ z < a
      BY <2>2
    <3>2. x \in A
      BY <1>6, <3>1
    <3>. QED
      BY <1>1, <1>3, <1>6, <3>1, <3>2
  <2>. QED
    BY <2>1, <2>2
<1>. QED
  BY <1>4, <1>5, <1>6 DEF Path!InOrder

\* What is left of a set of places when the first place is taken away.
After(A) == {i \in Nat \ {0} : i + 1 \in A}

Begins(of, n) == of[1] = n

LEMMA OrderShifts ==
  ASSUME NEW A, NEW B, NEW of, Path!InOrder(of, A, B), A \subseteq Nat \ {0}, B \subseteq Nat, 1 \notin A,
         NEW new, new = [i \in After(A) |-> of[i + 1]]
  PROVE  Path!InOrder(new, After(A), B)
<1>1. /\ of \in [A -> B] /\ \A y \in B : \E x \in A : of[x] = y
      /\ \A x, z \in A : x < z => of[x] < of[z]
  BY DEF Path!InOrder
<1>2. new \in [After(A) -> B]
  BY <1>1 DEF After
<1>3. ASSUME NEW y \in B PROVE \E i \in After(A) : new[i] = y
  <2>1. PICK x \in A : of[x] = y
    BY <1>1
  <2>2. x - 1 \in After(A) /\ (x - 1) + 1 = x
    BY DEF After
  <2>. QED
    BY <2>1, <2>2
<1>4. ASSUME NEW i \in After(A), NEW j \in After(A), i < j PROVE new[i] < new[j]
  <2>1. i + 1 \in A /\ j + 1 \in A /\ i + 1 < j + 1
    BY <1>4 DEF After
  <2>. QED
    BY <1>1, <2>1
<1>. QED
  BY <1>2, <1>3, <1>4 DEF Path!InOrder

LEMMA OrderStarts ==
  ASSUME NEW A, NEW B, NEW of, Path!InOrder(of, A, B), A \subseteq Nat \ {0}, B \subseteq Nat, 1 \in A,
         NEW n \in B, \A y \in B : n <= y
  PROVE  Begins(of, n)
<1>1. /\ of \in [A -> B] /\ \A y \in B : \E x \in A : of[x] = y
      /\ \A x, z \in A : x < z => of[x] < of[z]
  BY DEF Path!InOrder
<1>2. PICK x \in A : of[x] = n
  BY <1>1
<1>3. of[1] \in Nat /\ n \in Nat /\ n <= of[1]
  BY <1>1
<1>4. CASE x # 1
  <2>1. 1 < x
    BY <1>4
  <2>2. of[1] < n
    BY <1>1, <1>2, <2>1
  <2> DEFINE x1 == of[1]
  <2>3. x1 \in Nat /\ n \in Nat /\ n <= x1 /\ x1 < n
    BY <1>3, <2>2
  <2> HIDE DEF x1
  <2>4. FALSE
    BY <2>3
  <2>. QED
    BY <2>4
<1>. QED
  BY <1>2, <1>4 DEF Begins

LEMMA OrderLoses ==
  ASSUME NEW A, NEW B, NEW of, Path!InOrder(of, A, B), A \subseteq Nat \ {0}, B \subseteq Nat, 1 \in A,
         NEW n \in B, Begins(of, n), NEW new, new = [i \in After(A) |-> of[i + 1]]
  PROVE  Path!InOrder(new, After(A), B \ {n})
<1>1. /\ of \in [A -> B] /\ \A y \in B : \E x \in A : of[x] = y
      /\ \A x, z \in A : x < z => of[x] < of[z]
  BY DEF Path!InOrder
<1>2. of[1] = n
  BY DEF Begins
<1>3. ASSUME NEW i \in After(A) PROVE i + 1 \in A /\ of[i + 1] \in B \ {n}
  <2>1. i + 1 \in A /\ 1 < i + 1
    BY DEF After
  <2>2. of[1] < of[i + 1] /\ of[i + 1] \in B
    BY <1>1, <2>1
  <2>. QED
    BY <1>2, <2>1, <2>2
<1>4. new \in [After(A) -> B \ {n}]
  BY <1>3
<1>5. ASSUME NEW y \in B \ {n} PROVE \E i \in After(A) : new[i] = y
  <2>1. PICK x \in A : of[x] = y
    BY <1>1
  <2>2. x # 1
    BY <1>2, <2>1
  <2>3. x - 1 \in After(A) /\ (x - 1) + 1 = x
    BY <2>2 DEF After
  <2>. QED
    BY <2>1, <2>3
<1>6. ASSUME NEW i \in After(A), NEW j \in After(A), i < j PROVE new[i] < new[j]
  <2>1. i + 1 \in A /\ j + 1 \in A /\ i + 1 < j + 1
    BY <1>6 DEF After
  <2>. QED
    BY <1>1, <2>1
<1>. QED
  BY <1>4, <1>5, <1>6 DEF Path!InOrder

-----------------------------------------------------------------------------
(* The packets of a queue are those of the calls that wait, in their order *)

Waits(q, s) ==
  \E of \in [Places(q, Packets) -> Waiting(s)] :
    /\ Path!InOrder(of, Places(q, Packets), Waiting(s))
    /\ \A i \in Places(q, Packets) : q[i].packet = Path!Packet(s[of[i]].call)

\* A call is put behind the others, and its packet.
LEMMA WaitsGrows ==
  ASSUME NEW q \in Seq(Events), NEW s \in Seq(Asked), Waits(q, s), NEW e \in Packets, NEW a \in Open,
         e.packet = Path!Packet(a.call)
  PROVE  Waits(Append(q, e), Append(s, a))
<1> DEFINE A == Places(q, Packets)
           B == Waiting(s)
           m == Len(q) + 1
           n == Len(s) + 1
<1>1. PICK of \in [A -> B] :
        /\ Path!InOrder(of, A, B)
        /\ \A i \in A : q[i].packet = Path!Packet(s[of[i]].call)
  BY DEF Waits
<1>2. /\ e \in Events /\ a \in Asked /\ a.fate = "queued"
      /\ DOMAIN q = 1..Len(q) /\ DOMAIN s = 1..Len(s) /\ Len(q) \in Nat /\ Len(s) \in Nat
  BY DEF Events, Tasks, Open, Asked
<1>3. PICK r : r = Append(q, e)
  OBVIOUS
<1>4. PICK t : t = Append(s, a)
  OBVIOUS
<1>5. /\ DOMAIN r = 1..m /\ r[m] = e /\ (\A i \in DOMAIN q : r[i] = q[i])
      /\ DOMAIN t = 1..n /\ t[n] = a /\ (\A i \in DOMAIN s : t[i] = s[i])
  BY <1>2, <1>3, <1>4
<1>6. A \subseteq 1..Len(q) /\ B \subseteq 1..Len(s)
  BY <1>2 DEF Places, Waiting
<1>7. Places(r, Packets) = A \cup {m}
  BY <1>2, <1>5 DEF Places
<1>8. Waiting(t) = B \cup {n}
  BY <1>2, <1>5 DEF Waiting
<1>9. PICK new : new = [x \in A \cup {m} |-> IF x = m THEN n ELSE of[x]]
  OBVIOUS
<1> HIDE DEF A, B
<1>10. Path!InOrder(new, A \cup {m}, B \cup {n})
  <2>1. A \subseteq Nat /\ B \subseteq Nat /\ m \in Nat /\ n \in Nat
    BY <1>2, <1>6
  <2>2. (\A x \in A : x < m) /\ (\A y \in B : y < n)
    BY <1>2, <1>6
  <2> HIDE DEF m, n
  <2>. QED
    BY <1>1, <1>9, <2>1, <2>2, OrderGrows
<1>11. ASSUME NEW i \in A \cup {m} PROVE r[i].packet = Path!Packet(t[new[i]].call)
  <2>1. CASE i = m
    BY <1>5, <1>9, <2>1
  <2>2. CASE i # m
    <3>1. i \in A /\ new[i] = of[i] /\ of[i] \in B
      BY <1>1, <1>9, <2>2
    <3>2. r[i] = q[i] /\ t[of[i]] = s[of[i]]
      BY <1>2, <1>5, <1>6, <3>1
    <3>. QED
      BY <1>1, <3>1, <3>2
  <2>. QED
    BY <2>1, <2>2
<1>12. new \in [A \cup {m} -> B \cup {n}]
  BY <1>10 DEF Path!InOrder
<1>. QED
  BY <1>3, <1>4, <1>7, <1>8, <1>10, <1>11, <1>12 DEF Waits

\* Another event is put behind.
LEMMA WaitsForOthers ==
  ASSUME NEW q \in Seq(Events), NEW s, Waits(q, s), NEW e \in Events \ Packets
  PROVE  Waits(Append(q, e), s)
<1>1. PICK r : r = Append(q, e)
  OBVIOUS
<1>2. DOMAIN q = 1..Len(q) /\ Len(q) \in Nat /\ DOMAIN r = 1..(Len(q) + 1)
      /\ r[Len(q) + 1] = e /\ \A i \in DOMAIN q : r[i] = q[i]
  BY <1>1
<1>3. Places(r, Packets) = Places(q, Packets) /\ \A i \in Places(q, Packets) : r[i] = q[i]
  BY <1>2 DEF Places
<1>4. Waits(r, s)
  BY <1>3 DEF Waits
<1>. QED
  BY <1>1, <1>4

\* The places of the packets when the head is taken away.
LEMMA PlacesAfter ==
  ASSUME NEW q \in Seq(Events), q # <<>>, NEW r, r = Tail(q)
  PROVE  /\ Places(r, Packets) = After(Places(q, Packets)) /\ Places(q, Packets) \subseteq Nat \ {0}
         /\ \A i \in After(Places(q, Packets)) : r[i] = q[i + 1]
         /\ 1 \in Places(q, Packets) <=> Head(q) \in Packets
<1>1. /\ Len(q) \in Nat \ {0} /\ DOMAIN q = 1..Len(q) /\ DOMAIN r = 1..(Len(q) - 1)
      /\ Head(q) = q[1] /\ \A i \in 1..(Len(q) - 1) : r[i] = q[i + 1]
  OBVIOUS
<1>. QED
  BY <1>1 DEF Places, After

\* An event that is no packet is taken away.
LEMMA WaitsStill ==
  ASSUME NEW q \in Seq(Events), q # <<>>, NEW s \in Seq(Asked), Waits(q, s), Head(q) \notin Packets
  PROVE  Waits(Tail(q), s)
<1> DEFINE A == Places(q, Packets)
<1>1. PICK of \in [A -> Waiting(s)] :
        /\ Path!InOrder(of, A, Waiting(s))
        /\ \A i \in A : q[i].packet = Path!Packet(s[of[i]].call)
  BY DEF Waits
<1>2. PICK r : r = Tail(q)
  OBVIOUS
<1>3. /\ Places(r, Packets) = After(A) /\ A \subseteq Nat \ {0} /\ 1 \notin A
      /\ \A i \in After(A) : r[i] = q[i + 1]
  BY <1>2, PlacesAfter
<1>4. PICK new : new = [i \in After(A) |-> of[i + 1]]
  OBVIOUS
<1>5. Waiting(s) \subseteq Nat
  BY DEF Waiting
<1> HIDE DEF A
<1>6. Path!InOrder(new, After(A), Waiting(s))
  BY <1>1, <1>3, <1>4, <1>5, OrderShifts
<1>7. ASSUME NEW i \in After(A) PROVE r[i].packet = Path!Packet(s[new[i]].call)
  BY <1>1, <1>3, <1>4 DEF After
<1>8. new \in [After(A) -> Waiting(s)]
  BY <1>6 DEF Path!InOrder
<1>9. Waits(r, s)
  BY <1>3, <1>6, <1>7, <1>8 DEF Waits
<1>. QED
  BY <1>2, <1>9, Zenon

Carries(e, a) == e.packet = Path!Packet(a.call)

\* The first call that waits, n, is no longer one of them: its packet was the first.
LEMMA WaitsOnce ==
  ASSUME NEW q \in Seq(Events), q # <<>>, NEW s \in Seq(Asked), NEW t, Waits(q, s), Head(q) \in Packets,
         NEW n \in Waiting(s), \A j \in Waiting(s) : n <= j, Waiting(t) = Waiting(s) \ {n},
         \A j \in Waiting(t) : t[j].call = s[j].call
  PROVE  Waits(Tail(q), t) /\ Carries(Head(q), s[n])
<1> DEFINE A == Places(q, Packets)
<1>1. PICK of \in [A -> Waiting(s)] :
        /\ Path!InOrder(of, A, Waiting(s))
        /\ \A i \in A : q[i].packet = Path!Packet(s[of[i]].call)
  BY DEF Waits
<1>2. PICK r : r = Tail(q)
  OBVIOUS
<1>3. /\ Places(r, Packets) = After(A) /\ A \subseteq Nat \ {0} /\ 1 \in A
      /\ \A i \in After(A) : r[i] = q[i + 1]
  BY <1>2, PlacesAfter
<1>4. PICK new : new = [i \in After(A) |-> of[i + 1]]
  OBVIOUS
<1>5. Waiting(s) \subseteq Nat
  BY DEF Waiting
<1> HIDE DEF A
<1>6. of[1] = n /\ Path!InOrder(new, After(A), Waiting(t))
  <2>1. PICK B : B = Waiting(s)
    OBVIOUS
  <2>2. Path!InOrder(of, A, B) /\ B \subseteq Nat /\ n \in B /\ \A j \in B : n <= j
    BY <1>1, <1>5, <2>1
  <2>3. Begins(of, n)
    BY ONLY <1>3, <2>2, OrderStarts
  <2>5. Path!InOrder(new, After(A), B \ {n})
    BY ONLY <1>3, <1>4, <2>2, <2>3, OrderLoses
  <2>4. of[1] = n
    BY <2>3 DEF Begins
  <2>. QED
    BY <2>1, <2>4, <2>5, Zenon
<1>7. new \in [After(A) -> Waiting(t)]
  BY <1>6 DEF Path!InOrder
<1>8. ASSUME NEW i \in After(A) PROVE r[i].packet = Path!Packet(t[new[i]].call)
  <2>1. i + 1 \in A /\ new[i] = of[i + 1] /\ new[i] \in Waiting(t)
    BY <1>4, <1>7 DEF After
  <2>. QED
    BY <1>1, <1>3, <2>1
<1>9. Carries(Head(q), s[n])
  BY <1>1, <1>3, <1>6 DEF Carries
<1>10. Waits(r, t)
  BY <1>3, <1>6, <1>7, <1>8 DEF Waits
<1>. QED
  BY <1>2, <1>9, <1>10, Zenon

-----------------------------------------------------------------------------
(* What a device has heard is what was sent, in the order of the calls     *)

HeardIn(k, w) == {i \in DOMAIN w : ~Path!Own(k, w[i])}
SentIn(s) == {i \in DOMAIN s : s[i].fate = "sent"}

Fits(k, w, s) ==
  \E of \in [HeardIn(k, w) -> SentIn(s)] :
    /\ Path!InOrder(of, HeardIn(k, w), SentIn(s))
    /\ \A i \in HeardIn(k, w) : Path!Understood(k, w[i]) = Path!Meant(s[of[i]].call)

\* The calls that wait, or were dropped, do not matter.
LEMMA FitsSame ==
  ASSUME NEW k, NEW w, NEW s, NEW t, Fits(k, w, s),
         SentIn(t) = SentIn(s), \A i \in SentIn(s) : t[i].call = s[i].call
  PROVE  Fits(k, w, t)
<1>1. PICK of \in [HeardIn(k, w) -> SentIn(s)] :
        /\ Path!InOrder(of, HeardIn(k, w), SentIn(s))
        /\ \A i \in HeardIn(k, w) : Path!Understood(k, w[i]) = Path!Meant(s[of[i]].call)
  BY DEF Fits
<1>2. ASSUME NEW i \in HeardIn(k, w) PROVE Path!Understood(k, w[i]) = Path!Meant(t[of[i]].call)
  <2>1. of[i] \in SentIn(s)
    BY <1>1
  <2>. QED
    BY <1>1, <2>1
<1>. QED
  BY <1>1, <1>2 DEF Fits

\* A frame that no call asked for does not matter.
LEMMA FitsOwn ==
  ASSUME NEW k, NEW F, NEW w \in Seq(F), NEW s, NEW f, Fits(k, w, s), Path!Own(k, f)
  PROVE  Fits(k, Append(w, f), s)
<1>1. PICK r : r = Append(w, f)
  OBVIOUS
<1>2. /\ DOMAIN w = 1..Len(w) /\ Len(w) \in Nat /\ DOMAIN r = 1..(Len(w) + 1)
      /\ r[Len(w) + 1] = f /\ \A i \in DOMAIN w : r[i] = w[i]
  BY <1>1
<1>3. HeardIn(k, r) = HeardIn(k, w) /\ \A i \in HeardIn(k, w) : r[i] = w[i]
  BY <1>2 DEF HeardIn
<1>4. Fits(k, r, s)
  BY <1>3 DEF Fits
<1>. QED
  BY <1>1, <1>4, Zenon

\* The frame of a call later than those that were sent.
LEMMA FitsGrows ==
  ASSUME NEW k, NEW F, NEW w \in Seq(F), NEW s \in Seq(Asked), NEW t \in Seq(Asked), Fits(k, w, s),
         NEW f, ~Path!Own(k, f), NEW n \in Nat, \A i \in SentIn(s) : i < n,
         SentIn(t) = SentIn(s) \cup {n}, \A i \in SentIn(t) : t[i].call = s[i].call,
         Path!Understood(k, f) = Path!Meant(s[n].call)
  PROVE  Fits(k, Append(w, f), t)
<1>1. PICK of \in [HeardIn(k, w) -> SentIn(s)] :
        /\ Path!InOrder(of, HeardIn(k, w), SentIn(s))
        /\ \A i \in HeardIn(k, w) : Path!Understood(k, w[i]) = Path!Meant(s[of[i]].call)
  BY DEF Fits
<1>2. PICK A : A = HeardIn(k, w)
  OBVIOUS
<1>3. PICK B : B = SentIn(s)
  OBVIOUS
<1>4. PICK r : r = Append(w, f)
  OBVIOUS
<1>5. PICK m : m = Len(w) + 1
  OBVIOUS
<1>6. /\ m \in Nat \ {0} /\ DOMAIN w = 1..(m - 1) /\ DOMAIN r = 1..m
      /\ r[m] = f /\ \A i \in DOMAIN w : r[i] = w[i]
  BY <1>4, <1>5
<1>7. HeardIn(k, r) = A \cup {m} /\ (\A i \in A : r[i] = w[i]) /\ \A i \in A : i < m
  <2>1. A \subseteq DOMAIN w /\ \A i \in DOMAIN w : i \in A <=> ~Path!Own(k, w[i])
    BY <1>2 DEF HeardIn
  <2>2. (\A i \in A : r[i] = w[i]) /\ \A i \in A : i < m
    BY <1>6, <2>1
  <2>3. ASSUME NEW i PROVE i \in HeardIn(k, r) <=> i \in A \cup {m}
    <3>1. i \in HeardIn(k, r) <=> i \in DOMAIN r /\ ~Path!Own(k, r[i])
      BY DEF HeardIn
    <3>2. i \in DOMAIN r <=> i = m \/ i \in DOMAIN w
      BY <1>6
    <3>. QED
      BY <1>6, <2>1, <3>1, <3>2
  <2>. QED
    BY <2>2, <2>3
<1>8. A \subseteq Nat /\ B \subseteq Nat /\ \A i \in B : i < n
  BY <1>2, <1>3, <1>6 DEF HeardIn, SentIn
<1>9. PICK new : new = [x \in A \cup {m} |-> IF x = m THEN n ELSE of[x]]
  OBVIOUS
<1>10. Path!InOrder(of, A, B)
  BY <1>1, <1>2, <1>3
<1>11. Path!InOrder(new, A \cup {m}, B \cup {n})
  BY <1>6, <1>7, <1>8, <1>9, <1>10, OrderGrows
<1>12. new \in [A \cup {m} -> B \cup {n}]
  BY <1>11 DEF Path!InOrder
<1>13. ASSUME NEW i \in A \cup {m} PROVE Path!Understood(k, r[i]) = Path!Meant(t[new[i]].call)
  <2>1. CASE i = m
    <3>1. new[i] = n /\ r[i] = f /\ t[n].call = s[n].call
      BY <1>6, <1>9, <2>1
    <3>. QED
      BY <3>1
  <2>2. CASE i # m
    <3>1. i \in A /\ new[i] = of[i] /\ of[i] \in SentIn(s)
      BY <1>1, <1>2, <1>9, <2>2
    <3>2. r[i] = w[i] /\ t[of[i]].call = s[of[i]].call
      BY <1>7, <3>1
    <3>. QED
      BY <1>1, <1>2, <3>1, <3>2
  <2>. QED
    BY <2>1, <2>2
<1>14. Fits(k, r, t)
  BY <1>3, <1>7, <1>11, <1>12, <1>13 DEF Fits
<1>. QED
  BY <1>4, <1>14, Zenon

-----------------------------------------------------------------------------
(* Sending, and what becomes of the first call that waits                  *)

States == {"ONLINE", "OFFLINE", "ERROR"}

\* Until quit() has set TS_QUIT no event is late, and the worker that looks at the
\* state after it does not go on.
Cut(d) ==
  /\ d.at \in {"running", "stopping", "posted"} => d.late = 0 /\ d.m_state # "QUIT"
  /\ d.at = "posted" => d.worker # "starting"
  /\ d.worker = "starting" => d.m_state = "UNINIT"
  /\ d.worker # "ended" /\ d.m_state # "QUIT" => d.late = 0
  /\ d.worker = "popping" => d.late = 0

Fine(d) == d \in DeviceStates /\ d.m_devState \in States /\ Cut(d)

LEMMA ConnectEnds ==
  ASSUME NEW d \in DeviceStates, d.m_devState \in States \/ (d.m_devState = "INITIALIZED" /\ ~d.m_shuttingDown),
         NEW c \in Path!Connect(d)
  PROVE  c.m_devState \in States
<1>1. PICK t : t = Path!SetState(d, "CONNECTING")
  OBVIOUS
<1>2. t \in DeviceStates
  BY <1>1, SetStateKeeps
<1>3. t.m_devState \in States \/ (t.m_devState = "CONNECTING" /\ ~t.m_shuttingDown)
  BY <1>1 DEF Path!SetState, Path!Transitions, DeviceStates, States
<1>4. PICK on : on = Path!SetState(t, "ONLINE")
  OBVIOUS
<1>5. PICK off : off = Path!SetState(t, "OFFLINE")
  OBVIOUS
<1>6. on \in DeviceStates /\ on.m_devState \in States
  BY <1>2, <1>3, <1>4, SetStateKeeps DEF Path!SetState, Path!Transitions, DeviceStates, States
<1>7. off \in DeviceStates /\ off.m_devState \in States
  BY <1>2, <1>3, <1>5, SetStateKeeps DEF Path!SetState, Path!Transitions, DeviceStates, States
<1>8. \/ (c = d /\ d.m_devState = "ONLINE")
      \/ c = [on EXCEPT !.open = TRUE] \/ c = [off EXCEPT !.open = FALSE]
  BY <1>1, <1>4, <1>5 DEF Path!Connect
<1>. QED
  BY <1>6, <1>7, <1>8 DEF DeviceStates, States

LEMMA SendEnds ==
  ASSUME NEW d \in DeviceStates, d.m_devState \in States, NEW r \in Path!Send(d)
  PROVE  r.dev.m_devState \in States /\ r.sent \in BOOLEAN
<1>1. PICK c \in Path!Connect(d) :
        \/ r = [dev |-> c, sent |-> FALSE] \/ r = [dev |-> c, sent |-> TRUE]
        \/ r = [dev |-> [Path!SetState(c, "ERROR") EXCEPT !.open = FALSE], sent |-> FALSE]
  BY DEF Path!Send
<1>2. c \in DeviceStates /\ c.m_devState \in States
  <2>1. c \in DeviceStates
    BY ConnectKeeps
  <2>2. d.m_devState \in States \/ (d.m_devState = "INITIALIZED" /\ ~d.m_shuttingDown)
    OBVIOUS
  <2>3. c.m_devState \in States
    BY <2>2, ConnectEnds, Zenon
  <2>. QED
    BY <2>1, <2>3
<1>3. PICK e : e = Path!SetState(c, "ERROR")
  OBVIOUS
<1>4. e \in DeviceStates /\ e.m_devState \in States
  BY <1>2, <1>3, SetStateKeeps DEF Path!SetState, DeviceStates, States
<1>5. PICK x : x = [e EXCEPT !.open = FALSE]
  OBVIOUS
<1>6. x.m_devState \in States
  BY <1>4, <1>5 DEF DeviceStates
<1>7. r.dev \in {c, x} /\ r.sent \in BOOLEAN
  <2>1. CASE r = [dev |-> c, sent |-> FALSE]
    <3>1. r.dev = c /\ r.sent = FALSE
      BY <2>1
    <3>. QED
      BY <3>1
  <2>2. CASE r = [dev |-> c, sent |-> TRUE]
    <3>1. r.dev = c /\ r.sent = TRUE
      BY <2>2
    <3>. QED
      BY <3>1
  <2>3. CASE r = [dev |-> x, sent |-> FALSE]
    <3>1. r.dev = x /\ r.sent = FALSE
      BY <2>3
    <3>. QED
      BY <3>1
  <2>. QED
    BY <1>1, <1>3, <1>5, <2>1, <2>2, <2>3, Zenon
<1>. QED
  BY <1>2, <1>6, <1>7

LEMMA BeginsFine ==
  ASSUME NEW k \in Path!Kinds, NEW fleet, NEW r \in Path!Begins(fleet, k)
  PROVE  Fine(r.dev) /\ r.sent \in BOOLEAN /\ (r.sent => k = Path!Types.PTZ)
<1>1. CASE r \in Path!Started(k)
  <2> DEFINE new == [m_devState |-> "INITIALIZED", open |-> FALSE, m_shuttingDown |-> FALSE,
                     m_state |-> "UNINIT", at |-> "running", worker |-> "starting", late |-> 0]
  <2>1. /\ new \in DeviceStates /\ new.m_devState = "INITIALIZED" /\ ~new.m_shuttingDown
        /\ new.m_state = "UNINIT" /\ new.at = "running" /\ new.worker = "starting" /\ new.late = 0
    BY DEF DeviceStates
  <2>2. PICK c \in Path!Connect(new) :
          (k = Path!Types.PTZ /\ r \in Path!Send(c)) \/ r = [dev |-> c, sent |-> FALSE]
    <3> HIDE DEF new
    <3>. QED
      BY <1>1 DEF Path!Started, new
  <2> HIDE DEF new
  <2>3. c \in DeviceStates /\ c.m_devState \in States /\ SameLife(c, new)
    BY <2>1, ConnectKeeps, ConnectEnds
  <2>4. /\ r.dev \in DeviceStates /\ r.dev.m_devState \in States /\ SameLife(r.dev, new)
        /\ r.sent \in BOOLEAN /\ (r.sent => k = Path!Types.PTZ)
    <3>1. CASE k = Path!Types.PTZ /\ r \in Path!Send(c)
      BY <2>3, <3>1, SendKeeps, SendEnds DEF SameLife
    <3>2. CASE r = [dev |-> c, sent |-> FALSE]
      <4>1. r.dev = c /\ r.sent = FALSE
        BY <3>2
      <4>. QED
        BY <2>3, <4>1
    <3>. QED
      BY <2>2, <3>1, <3>2
  <2>. QED
    BY <2>1, <2>4 DEF Fine, Cut, SameLife
<1>2. CASE r = [dev |-> Path!Absent, sent |-> FALSE]
  <2>1. Fine(Path!Absent)
    BY DEF Path!Absent, Fine, Cut, DeviceStates, States
  <2>2. r.dev = Path!Absent /\ r.sent = FALSE
    BY <1>2
  <2>. QED
    BY <2>1, <2>2
<1>. QED
  BY <1>1, <1>2 DEF Path!Begins

-----------------------------------------------------------------------------
(* The inductive invariant.  CommandsArrive looks at what was sent: of the  *)
(* calls that still wait ArriveInv says that their packets are in the       *)
(* queue, in their order, and that whatever was sent or dropped was asked   *)
(* for earlier.  The numbers of the commands are bounded by what can still  *)
(* take one.                                                                *)

Known(k, w, d, s, q) ==
  /\ w \in Seq(Frames(k)) /\ Fine(d) /\ s \in Seq(Asked) /\ q \in Seq(Events)
  /\ \A i \in DOMAIN s : Path!Target(s[i].call) = k
  /\ \A i \in DOMAIN s \ Waiting(s), j \in Waiting(s) : i < j
  /\ Waits(q, s) /\ Fits(k, w, s)
  /\ k # Path!Types.SOUND => \A i \in DOMAIN q : q[i].event # "Heartbeat"

Counted ==
  /\ m_cseq \in Nat /\ beats \in 0..MaxBeats /\ Path!Total <= MaxCalls
  /\ m_cseq + Todo(m_eq[Path!Types.SOUND]) <= Len(asked[Path!Types.SOUND]) + beats

Rising(w, n) ==
  /\ \A i, j \in DOMAIN w : i < j => w[i].cseq < w[j].cseq
  /\ \A i \in DOMAIN w : w[i].cseq <= n

OfKinds ==
  /\ asked = [k \in Path!Kinds |-> asked[k]] /\ m_eq = [k \in Path!Kinds |-> m_eq[k]]
  /\ dev = [k \in Path!Kinds |-> dev[k]] /\ wire = [k \in Path!Kinds |-> wire[k]]

ArriveInv ==
  /\ client \in {"calls", "releases", "released"} /\ OfKinds
  /\ \A k \in Path!Kinds : Known(k, wire[k], dev[k], asked[k], m_eq[k])
  /\ Counted /\ Rising(wire[Path!Types.SOUND], m_cseq)

-----------------------------------------------------------------------------
(* A step of one device leaves what is known of the others. *)
LEMMA KnownMoves ==
  ASSUME ArriveInv, NEW k \in Path!Kinds, OfKinds',
         \A l \in Path!Kinds \ {k} :
           wire'[l] = wire[l] /\ dev'[l] = dev[l] /\ asked'[l] = asked[l] /\ m_eq'[l] = m_eq[l],
         Known(k, wire'[k], dev'[k], asked'[k], m_eq'[k]),
         Counted', Rising(wire'[Path!Types.SOUND], m_cseq'), client' = client
  PROVE  ArriveInv'
<1>1. ASSUME NEW l \in Path!Kinds PROVE Known(l, wire'[l], dev'[l], asked'[l], m_eq'[l])
  <2>1. CASE l = k
    BY <2>1
  <2>2. CASE l # k
    <3>1. /\ wire'[l] = wire[l] /\ dev'[l] = dev[l] /\ asked'[l] = asked[l] /\ m_eq'[l] = m_eq[l]
          /\ Known(l, wire[l], dev[l], asked[l], m_eq[l])
      BY <2>2 DEF ArriveInv
    <3>. QED
      BY <3>1
  <2>. QED
    BY <2>1, <2>2
<1>2. client' \in {"calls", "releases", "released"}
  BY DEF ArriveInv
<1>. QED
  BY <1>1, <1>2 DEF ArriveInv

LEMMA NumbersAreNaturals ==
  ASSUME NEW w \in Seq(JsonFrames), NEW n, Rising(w, n), NEW i \in DOMAIN w
  PROVE  w[i].cseq \in Nat /\ w[i].cseq <= n
<1>1. w[i] \in JsonFrames
  OBVIOUS
<1>2. w[i].cseq \in Nat
  BY <1>1 DEF JsonFrames
<1>. QED
  BY <1>2 DEF Rising

LEMMA RisingGrows ==
  ASSUME NEW w \in Seq(JsonFrames), NEW n \in Nat, Rising(w, n), NEW f \in JsonFrames, f.cseq = n + 1
  PROVE  Rising(Append(w, f), n + 1)
<1>1. PICK r : r = Append(w, f)
  OBVIOUS
<1>2. /\ DOMAIN w = 1..Len(w) /\ Len(w) \in Nat /\ DOMAIN r = 1..(Len(w) + 1)
      /\ r[Len(w) + 1] = f /\ \A i \in DOMAIN w : r[i] = w[i]
  BY <1>1
<1>3. \A i \in DOMAIN w : w[i].cseq \in Nat /\ w[i].cseq <= n
  BY NumbersAreNaturals
<1>4. ASSUME NEW i \in DOMAIN r PROVE r[i].cseq \in Nat /\ r[i].cseq <= n + 1
  <2>1. i \in DOMAIN w \/ i = Len(w) + 1
    BY <1>2
  <2>. QED
    BY <1>2, <1>3, <2>1
<1>5. ASSUME NEW i \in DOMAIN r, NEW j \in DOMAIN r, i < j PROVE r[i].cseq < r[j].cseq
  <2>1. i \in DOMAIN w
    BY <1>2, <1>5
  <2>2. CASE j \in DOMAIN w
    BY <1>2, <1>5, <2>1, <2>2 DEF Rising
  <2>3. CASE j = Len(w) + 1
    BY <1>2, <1>3, <2>1, <2>3
  <2>. QED
    BY <1>2, <2>2, <2>3
<1>6. Rising(r, n + 1)
  BY <1>4, <1>5 DEF Rising
<1>. QED
  BY <1>1, <1>6, Zenon

LEMMA RisingStays ==
  ASSUME NEW w \in Seq(JsonFrames), NEW n \in Nat, Rising(w, n)
  PROVE  Rising(w, n + 1)
<1>1. \A i \in DOMAIN w : w[i].cseq \in Nat /\ w[i].cseq <= n
  BY NumbersAreNaturals
<1>2. \A i \in DOMAIN w : w[i].cseq <= n + 1
  BY <1>1
<1>. QED
  BY <1>2 DEF Rising

\* What a device knows if another event is put into its queue, or its state changes.
LEMMA KnownWithEvent ==
  ASSUME NEW k, NEW w, NEW d, NEW s, NEW q \in Seq(Events), Known(k, w, d, s, q),
         NEW e \in Events \ Packets, k # Path!Types.SOUND => e.event # "Heartbeat"
  PROVE  Known(k, w, d, s, Append(q, e))
<1>1. Waits(q, s)
  BY DEF Known
<1>2. PICK r : r = Append(q, e)
  OBVIOUS
<1>3. Waits(r, s)
  BY <1>1, <1>2, WaitsForOthers
<1>4. ASSUME k # Path!Types.SOUND PROVE \A i \in DOMAIN r : r[i].event # "Heartbeat"
  <2>1. \A i \in DOMAIN q : q[i].event # "Heartbeat"
    BY <1>4 DEF Known
  <2>2. ASSUME NEW i \in DOMAIN r PROVE (i \in DOMAIN q /\ r[i] = q[i]) \/ r[i] = e
    BY <1>2
  <2>. QED
    BY <1>4, <2>1, <2>2
<1>6. r \in Seq(Events)
  BY <1>2
<1>5. Known(k, w, d, s, r)
  BY <1>3, <1>4, <1>6 DEF Known
<1>. QED
  BY <1>2, <1>5, Zenon

LEMMA KnownWithState ==
  ASSUME NEW k, NEW w, NEW d, NEW s, NEW q, Known(k, w, d, s, q), NEW e, Fine(e)
  PROVE  Known(k, w, e, s, q)
BY DEF Known

LEMMA KnownWithoutEvent ==
  ASSUME NEW k, NEW w, NEW d, NEW s \in Seq(Asked), NEW q \in Seq(Events), q # <<>>, Head(q) \notin Packets,
         Known(k, w, d, s, q)
  PROVE  Known(k, w, d, s, Tail(q))
<1>1. Waits(q, s)
  BY DEF Known
<1>2. PICK r : r = Tail(q)
  OBVIOUS
<1>3. Waits(r, s)
  BY <1>1, <1>2, WaitsStill
<1>4. ASSUME k # Path!Types.SOUND PROVE \A i \in DOMAIN r : r[i].event # "Heartbeat"
  <2>1. \A i \in DOMAIN q : q[i].event # "Heartbeat"
    BY <1>4 DEF Known
  <2>2. ASSUME NEW i \in DOMAIN r PROVE i + 1 \in DOMAIN q /\ r[i] = q[i + 1]
    BY <1>2
  <2>. QED
    BY <2>1, <2>2
<1>6. r \in Seq(Events)
  BY <1>2
<1>5. Known(k, w, d, s, r)
  BY <1>3, <1>4, <1>6 DEF Known
<1>. QED
  BY <1>2, <1>5, Zenon

LEMMA KnownWithReport ==
  ASSUME NEW k, NEW w, NEW d, NEW s, NEW q, Known(k, w, d, s, q), NEW f \in Frames(k), Path!Own(k, f)
  PROVE  Known(k, Append(w, f), d, s, q)
<1>1. Fits(k, w, s) /\ w \in Seq(Frames(k))
  BY DEF Known
<1>2. PICK r : r = Append(w, f)
  OBVIOUS
<1>3. Fits(k, r, s)
  BY <1>1, <1>2, FitsOwn
<1>4. r \in Seq(Frames(k))
  BY <1>1, <1>2
<1>5. Known(k, r, d, s, q)
  BY <1>3, <1>4 DEF Known
<1>. QED
  BY <1>2, <1>5, Zenon

\* What a device knows when a call and its packet are put behind the others.
LEMMA KnownWhenAsked ==
  ASSUME NEW k, NEW w, NEW d, NEW s \in Seq(Asked), NEW q \in Seq(Events), Known(k, w, d, s, q),
         NEW c \in Path!Calls, Path!Target(c) = k,
         NEW a, a = [call |-> c, fate |-> "queued"],
         NEW e, e = [event |-> "PacketArrival", packet |-> Path!Packet(c)]
  PROVE  Known(k, w, d, Append(s, a), Append(q, e))
<1>1. /\ e \in Packets /\ e.packet = Path!Packet(a.call) /\ e.event # "Heartbeat"
      /\ a \in Open /\ a \in Asked /\ a.call = c /\ a.fate = "queued"
  BY DEF Packets, Open, Asked
<1>2. PICK r : r = Append(q, e)
  OBVIOUS
<1>3. PICK t : t = Append(s, a)
  OBVIOUS
<1>4. PICK n : n = Len(s) + 1
  OBVIOUS
<1>5. /\ n \in Nat \ {0} /\ DOMAIN s = 1..(n - 1) /\ DOMAIN t = 1..n /\ t[n] = a
      /\ \A i \in DOMAIN s : t[i] = s[i]
  BY <1>3, <1>4
<1>6. Waits(r, t)
  <2>1. Waits(q, s)
    BY DEF Known
  <2>. QED
    BY <1>1, <1>2, <1>3, <2>1, WaitsGrows
<1>7. SentIn(t) = SentIn(s) /\ Waiting(t) = Waiting(s) \cup {n}
  BY <1>1, <1>5 DEF SentIn, Waiting
<1>8. Fits(k, w, t)
  <2>1. \A i \in SentIn(s) : t[i].call = s[i].call
    BY <1>5 DEF SentIn
  <2>2. Fits(k, w, s)
    BY DEF Known
  <2>. QED
    BY <1>7, <2>1, <2>2, FitsSame
<1>9. \A i \in DOMAIN t \ Waiting(t), j \in Waiting(t) : i < j
  <2>1. DOMAIN t \ Waiting(t) = DOMAIN s \ Waiting(s) /\ \A i \in DOMAIN s : i < n
    BY <1>5, <1>7 DEF Waiting
  <2>. QED
    BY <1>7, <2>1 DEF Known
<1>10. \A i \in DOMAIN t : Path!Target(t[i].call) = k
  <2>1. ASSUME NEW i \in DOMAIN t PROVE Path!Target(t[i].call) = k
    <3>1. i \in DOMAIN s \/ i = n
      BY <1>5
    <3>2. CASE i \in DOMAIN s
      BY <1>5, <3>2 DEF Known
    <3>3. CASE i = n
      BY <1>1, <1>5, <3>3
    <3>. QED
      BY <3>1, <3>2, <3>3
  <2>. QED
    BY <2>1
<1>11. ASSUME k # Path!Types.SOUND PROVE \A i \in DOMAIN r : r[i].event # "Heartbeat"
  <2>1. \A i \in DOMAIN q : q[i].event # "Heartbeat"
    BY <1>11 DEF Known
  <2>2. ASSUME NEW i \in DOMAIN r PROVE (i \in DOMAIN q /\ r[i] = q[i]) \/ r[i] = e
    <3>1. e \in Events
      BY <1>1 DEF Events, Tasks
    <3>. QED
      BY <1>2, <3>1
  <2>. QED
    BY <1>1, <2>1, <2>2
<1>13. r \in Seq(Events) /\ t \in Seq(Asked)
  <2>1. e \in Events
    BY <1>1 DEF Events, Tasks
  <2>. QED
    BY <1>1, <1>2, <1>3, <2>1
<1>12. Known(k, w, d, t, r)
  BY <1>6, <1>8, <1>9, <1>10, <1>11, <1>13 DEF Known
<1>. QED
  BY <1>2, <1>3, <1>12, Zenon

\* What the driver makes of the packet at the head: a frame for the first call that waits.
LEMMA HeadUnderstood ==
  ASSUME NEW k, NEW w, NEW d, NEW s \in Seq(Asked), NEW q \in Seq(Events),
         Known(k, w, d, s, q), q # <<>>, Head(q) \in Packets, m_cseq \in Nat,
         NEW t, NEW fate, NEW n, Settled(s, t, n, fate), NEW f, f = Path!Handler(Head(q).packet)
  PROVE  /\ Waits(Tail(q), t)
         /\ f \in Frames(k) /\ ~Path!Own(k, f) /\ Path!Understood(k, f) = Path!Meant(s[n].call)
         /\ k = Path!Types.SOUND => f \in JsonFrames /\ f.cseq = m_cseq + 1
<1>1. Waits(q, s) /\ \A i \in DOMAIN s : Path!Target(s[i].call) = k
  BY DEF Known
<1>2. /\ n \in Waiting(s) /\ \A j \in Waiting(s) : n <= j
      /\ Waiting(t) = Waiting(s) \ {n} /\ \A i \in DOMAIN s : t[i].call = s[i].call
  BY DEF Settled
<1>3. n \in DOMAIN s /\ s[n] \in Asked /\ \A j \in Waiting(t) : t[j].call = s[j].call
  BY <1>2 DEF Waiting
<1>4. Waits(Tail(q), t) /\ Head(q).packet = Path!Packet(s[n].call)
  <2>1. Waits(Tail(q), t) /\ Carries(Head(q), s[n])
    BY <1>1, <1>2, <1>3, WaitsOnce
  <2>2. Head(q).packet = Path!Packet(s[n].call)
    BY <2>1 DEF Carries
  <2>. QED
    BY <2>1, <2>2
<1>5. PICK c : c = s[n].call
  OBVIOUS
<1>6. c \in Path!Calls /\ Path!Target(c) = k
  BY <1>1, <1>3, <1>5 DEF Asked
<1>7. f = Path!Handler(Path!Packet(c))
  BY <1>4, <1>5
<1>8. Understandable(c, f)
  BY <1>6, <1>7, CommandUnderstood
<1>. QED
  BY <1>4, <1>5, <1>6, <1>8 DEF Understandable, Frames

\* What a device knows when the packet at the head is taken, and its call meets its fate.
LEMMA KnownWhenSettled ==
  ASSUME NEW k \in Path!Kinds, NEW w, NEW d, NEW s \in Seq(Asked), NEW q \in Seq(Events),
         Known(k, w, d, s, q), q # <<>>, Head(q) \in Packets, m_cseq \in Nat,
         NEW t \in Seq(Asked), NEW fate \in {"sent", "dropped"}, NEW n, Settled(s, t, n, fate),
         NEW e, Fine(e), NEW f, f = Path!Handler(Head(q).packet),
         NEW v, v = IF fate = "sent" THEN Append(w, f) ELSE w
  PROVE  Known(k, v, e, t, Tail(q))
<1>. /\ n \in Waiting(s) /\ \A j \in Waiting(s) : n <= j
     /\ Waiting(t) = Waiting(s) \ {n} /\ DOMAIN t = DOMAIN s /\ t[n].fate = fate
     /\ \A i \in DOMAIN s : t[i].call = s[i].call
     /\ \A i \in DOMAIN s \ {n} : t[i].fate = s[i].fate
  BY DEF Settled
<1>1. /\ w \in Seq(Frames(k)) /\ Waits(q, s) /\ Fits(k, w, s)
      /\ (\A i \in DOMAIN s : Path!Target(s[i].call) = k)
      /\ \A i \in DOMAIN s \ Waiting(s), j \in Waiting(s) : i < j
  BY DEF Known
<1>2. PICK r : r = Tail(q)
  OBVIOUS
<1>3. n \in DOMAIN s /\ n \in Nat /\ s[n].fate = "queued" /\ s[n] \in Asked
  BY DEF Waiting
<1>4. /\ Waits(Tail(q), t) /\ f \in Frames(k) /\ ~Path!Own(k, f)
      /\ Path!Understood(k, f) = Path!Meant(s[n].call)
  BY HeadUnderstood
<1>5. Waits(r, t)
  BY <1>2, <1>4, Zenon
<1>6. \A i \in SentIn(s) : i < n
  <2>1. SentIn(s) \subseteq DOMAIN s \ Waiting(s)
    BY DEF SentIn, Waiting
  <2>. QED
    BY <1>1, <2>1
<1>7. \A i \in SentIn(s) : i \in DOMAIN s /\ i # n
  BY <1>3 DEF SentIn
<1>8. SentIn(t) = IF fate = "sent" THEN SentIn(s) \cup {n} ELSE SentIn(s)
  BY <1>3 DEF SentIn
<1>9. v \in Seq(Frames(k)) /\ Fits(k, v, t)
  <2>1. CASE fate = "sent"
    <3>1. SentIn(t) = SentIn(s) \cup {n} /\ v = Append(w, f)
      BY <1>8, <2>1
    <3>2. \A i \in SentIn(t) : t[i].call = s[i].call
      BY <1>3, <1>7, <3>1
    <3>3. Fits(k, Append(w, f), t)
      BY <1>1, <1>3, <1>4, <1>6, <3>1, <3>2, FitsGrows
    <3>. QED
      BY <1>1, <1>4, <3>1, <3>3
  <2>2. CASE fate # "sent"
    <3>1. SentIn(t) = SentIn(s) /\ v = w
      BY <1>8, <2>2
    <3>2. \A i \in SentIn(s) : t[i].call = s[i].call
      BY <1>7
    <3>. QED
      BY <1>1, <3>1, <3>2, FitsSame
  <2>. QED
    BY <2>1, <2>2
<1>10. \A i \in DOMAIN t \ Waiting(t), j \in Waiting(t) : i < j
  <2>1. ASSUME NEW i \in DOMAIN t \ Waiting(t), NEW j \in Waiting(t) PROVE i < j
    <3>1. j \in Waiting(s) /\ j # n /\ n <= j /\ j \in Nat
      BY DEF Waiting
    <3>2. i \in DOMAIN s \ Waiting(s) \/ i = n
      OBVIOUS
    <3>. QED
      BY <1>1, <1>3, <3>1, <3>2
  <2>. QED
    BY <2>1
<1>11. \A i \in DOMAIN t : Path!Target(t[i].call) = k
  BY <1>1
<1>12. ASSUME k # Path!Types.SOUND PROVE \A i \in DOMAIN r : r[i].event # "Heartbeat"
  <2>1. \A i \in DOMAIN q : q[i].event # "Heartbeat"
    BY <1>12 DEF Known
  <2>2. ASSUME NEW i \in DOMAIN r PROVE i + 1 \in DOMAIN q /\ r[i] = q[i + 1]
    BY <1>2
  <2>. QED
    BY <2>1, <2>2
<1>14. r \in Seq(Events)
  BY <1>2
<1>13. Known(k, v, e, t, r)
  BY <1>5, <1>9, <1>10, <1>11, <1>12, <1>14 DEF Known
<1>. QED
  BY <1>2, <1>13, Zenon

-----------------------------------------------------------------------------
(* Initially, and one lemma for each action                                *)

LEMMA InitiallyArrives == Path!Init => ArriveInv
<1> SUFFICES ASSUME Path!Init PROVE ArriveInv
  OBVIOUS
<1>0. PICK fleet \in Fleets : \E r \in [Path!Kinds -> UNION {Path!Begins(fleet, k) : k \in Path!Kinds}] :
        /\ \A k \in Path!Kinds : r[k] \in Path!Begins(fleet, k)
        /\ dev = [k \in Path!Kinds |-> r[k].dev]
        /\ wire = [k \in Path!Kinds |-> IF r[k].sent THEN <<Path!AngleReport(TRUE)>> ELSE <<>>]
  BY DEF Path!Init
<1>1. /\ client = "calls" /\ m_cseq = 0 /\ beats = 0
      /\ asked = [k \in Path!Kinds |-> <<>>] /\ m_eq = [k \in Path!Kinds |-> <<>>]
  BY DEF Path!Init
<1>2. PICK r \in [Path!Kinds -> UNION {Path!Begins(fleet, k) : k \in Path!Kinds}] :
        /\ \A k \in Path!Kinds : r[k] \in Path!Begins(fleet, k)
        /\ dev = [k \in Path!Kinds |-> r[k].dev]
        /\ wire = [k \in Path!Kinds |-> IF r[k].sent THEN <<Path!AngleReport(TRUE)>> ELSE <<>>]
  BY <1>0
<1>3. ASSUME NEW k \in Path!Kinds PROVE Known(k, wire[k], dev[k], asked[k], m_eq[k])
  <2>1. /\ asked[k] = <<>> /\ m_eq[k] = <<>> /\ dev[k] = r[k].dev
        /\ wire[k] = IF r[k].sent THEN <<Path!AngleReport(TRUE)>> ELSE <<>>
    BY <1>1, <1>2
  <2>2. Fine(dev[k]) /\ r[k].sent \in BOOLEAN /\ (r[k].sent => k = 3)
    BY <1>2, <2>1, BeginsFine, KindNumbers
  <2>3. PICK f : f = Path!AngleReport(TRUE)
    OBVIOUS
  <2>4. k = 3 => f \in Frames(k) /\ Path!Own(k, f)
    <3>1. TRUE \in BOOLEAN
      OBVIOUS
    <3>2. f \in Frames(3) /\ Path!Own(3, f)
      BY <2>3, <3>1, ReportIs
    <3>. QED
      BY <3>2
  <2>5. wire[k] \in Seq(Frames(k)) /\ HeardIn(k, wire[k]) = {}
    <3>1. CASE r[k].sent
      <4>1. wire[k] = <<f>> /\ k = 3
        BY <2>1, <2>2, <2>3, <3>1
      <4>2. HeardIn(k, <<f>>) = {}
        BY <2>4, <4>1 DEF HeardIn
      <4>3. <<f>> \in Seq(Frames(k))
        BY <2>4, <4>1
      <4>. QED
        BY <4>1, <4>2, <4>3
    <3>2. CASE ~r[k].sent
      <4>1. wire[k] = <<>>
        BY <2>1, <3>2
      <4>2. HeardIn(k, <<>>) = {} /\ <<>> \in Seq(Frames(k))
        BY DEF HeardIn
      <4>. QED
        BY <4>1, <4>2
    <3>. QED
      BY <2>2, <3>1, <3>2
  <2>6. Places(m_eq[k], Packets) = {} /\ Waiting(asked[k]) = {} /\ SentIn(asked[k]) = {}
    BY <2>1 DEF Places, Waiting, SentIn
  <2>7. PICK none : none = [x \in {} |-> x]
    OBVIOUS
  <2>8. none \in [{} -> {}] /\ Path!InOrder(none, {}, {})
    BY <2>7 DEF Path!InOrder
  <2>9. Waits(m_eq[k], asked[k])
    BY <2>6, <2>8 DEF Waits
  <2>10. Fits(k, wire[k], asked[k])
    BY <2>5, <2>6, <2>8 DEF Fits
  <2>11. /\ DOMAIN asked[k] = {} /\ DOMAIN m_eq[k] = {}
         /\ asked[k] \in Seq(Asked) /\ m_eq[k] \in Seq(Events)
    BY <2>1
  <2>. QED
    BY <2>2, <2>5, <2>6, <2>9, <2>10, <2>11 DEF Known
<1>4. Path!Total = 0
  BY <1>1, KindNumbers DEF Path!Total
<1>5. Counted
  <2>1. asked[2] = <<>> /\ m_eq[2] = <<>>
    BY <1>1, KindNumbers
  <2>2. Todo(<<>>) = 0
    <3>1. Places(<<>>, Tasks) = {}
      BY DEF Places
    <3>. QED
      BY <3>1, FS_EmptySet DEF Todo
  <2>3. Todo(m_eq[2]) = 0 /\ Len(asked[2]) = 0
    BY <2>1, <2>2
  <2>. QED
    BY <1>1, <1>4, <2>3, KindNumbers, CommandsAssumption DEF Counted
<1>6. Rising(wire[Path!Types.SOUND], m_cseq)
  <2>1. ~r[2].sent
    <3>1. r[2] \in Path!Begins(fleet, 2)
      BY <1>2, KindNumbers
    <3>2. r[2].sent => 2 = Path!Types.PTZ
      BY <3>1, KindNumbers, BeginsFine
    <3>. QED
      BY <3>2, KindNumbers
  <2>2. wire[2] = <<>>
    BY <1>2, <2>1, KindNumbers
  <2>. QED
    BY <2>2, KindNumbers DEF Rising
<1>. QED
  BY <1>1, <1>2, <1>3, <1>5, <1>6 DEF ArriveInv, OfKinds

LEMMA WhatIsKnown ==
  ASSUME ArriveInv, NEW k \in Path!Kinds
  PROVE  /\ Known(k, wire[k], dev[k], asked[k], m_eq[k])
         /\ m_eq[k] \in Seq(Events) /\ asked[k] \in Seq(Asked) /\ dev[k] \in DeviceStates
         /\ wire[k] \in Seq(Frames(k)) /\ dev[k].m_devState \in States /\ Cut(dev[k])
         /\ m_eq = [l \in Path!Kinds |-> m_eq[l]] /\ asked = [l \in Path!Kinds |-> asked[l]]
         /\ dev = [l \in Path!Kinds |-> dev[l]] /\ wire = [l \in Path!Kinds |-> wire[l]]
BY DEF ArriveInv, OfKinds, Known, Fine

LEMMA NumbersKnown ==
  ASSUME ArriveInv
  PROVE  /\ m_cseq \in Nat /\ beats \in Nat /\ Rising(wire[2], m_cseq)
         /\ wire[2] \in Seq(JsonFrames)
         /\ Len(asked[1]) \in Nat /\ Len(asked[2]) \in Nat /\ Len(asked[3]) \in Nat
         /\ Todo(m_eq[2]) \in Nat /\ Path!Total = Len(asked[1]) + Len(asked[2]) + Len(asked[3])
         /\ MaxCalls \in Nat /\ MaxBeats \in Nat
<1>1. 1 \in Path!Kinds /\ 2 \in Path!Kinds /\ 3 \in Path!Kinds
  BY KindNumbers
<1>2. /\ asked[1] \in Seq(Asked) /\ asked[2] \in Seq(Asked) /\ asked[3] \in Seq(Asked)
      /\ m_eq[2] \in Seq(Events) /\ wire[2] \in Seq(Frames(2))
  BY <1>1, WhatIsKnown
<1>3. m_cseq \in Nat /\ beats \in Nat /\ Rising(wire[2], m_cseq)
  BY KindNumbers, CommandsAssumption DEF ArriveInv, Counted
<1>4. Path!Total = Len(asked[1]) + Len(asked[2]) + Len(asked[3])
  BY KindNumbers DEF Path!Total
<1>5. Todo(m_eq[2]) \in Nat
  BY <1>2, TodoCounts
<1>. QED
  BY <1>2, <1>3, <1>4, <1>5, FramesAre, CommandsAssumption

\* Inequalities put end to end.
LEMMA SumsChain ==
  ASSUME NEW a \in Nat, NEW z \in Nat, NEW c \in Nat, NEW y \in Nat, NEW x \in Nat, NEW b \in Nat,
         a + z <= c + y, c + y <= x + b
  PROVE  a + z <= x + b
OBVIOUS

LEMMA OneMoved ==
  ASSUME NEW a \in Nat, NEW c \in Nat, NEW y \in Nat, NEW z \in Nat, a <= c + 1, z = y - 1
  PROVE  a + z <= c + y
OBVIOUS

\* A step in which nothing is called and no heartbeat is posted.
LEMMA CountedStays ==
  ASSUME ArriveInv, \A l \in Path!Kinds : Len(asked'[l]) = Len(asked[l]),
         m_cseq' \in Nat, beats' = beats, Todo(m_eq'[2]) \in Nat,
         m_cseq' + Todo(m_eq'[2]) <= m_cseq + Todo(m_eq[2])
  PROVE  Counted'
<1>1. Len(asked'[1]) = Len(asked[1]) /\ Len(asked'[2]) = Len(asked[2]) /\ Len(asked'[3]) = Len(asked[3])
  BY KindNumbers
<1>2. Path!Total' = Path!Total /\ Path!Total <= MaxCalls
  BY <1>1, KindNumbers DEF Path!Total, ArriveInv, Counted
<1>3. m_cseq + Todo(m_eq[2]) <= Len(asked[2]) + beats /\ beats \in 0..MaxBeats
  BY KindNumbers DEF ArriveInv, Counted
<1>4. m_cseq' + Todo(m_eq'[2]) <= Len(asked'[2]) + beats'
  <2>1. Len(asked[2]) \in Nat /\ m_cseq \in Nat /\ beats \in Nat /\ Todo(m_eq[2]) \in Nat
    BY NumbersKnown
  <2> DEFINE x == Len(asked[2])
             y == Todo(m_eq[2])
             z == Todo(m_eq'[2])
  <2>2. x \in Nat /\ y \in Nat /\ z \in Nat /\ m_cseq + y <= x + beats /\ m_cseq' + z <= m_cseq + y
    BY <1>3, <2>1
  <2>3. Len(asked'[2]) = x /\ beats' = beats
    BY <1>1
  <2> HIDE DEF x, y, z
  <2>4. m_cseq' \in Nat /\ m_cseq \in Nat /\ beats \in Nat
    BY <2>1
  <2>5. m_cseq' + z <= x + beats
    BY <2>2, <2>4, SumsChain
  <2>. QED
    BY <2>3, <2>5 DEF x, z
<1>. QED
  BY <1>2, <1>3, <1>4, KindNumbers DEF Counted

LEMMA PostPktArrives ==
  ASSUME ArriveInv, NEW c \in Path!Calls, Path!PostPkt(c)
  PROVE  ArriveInv'
<1>1. PICK k : k = Path!Target(c)
  OBVIOUS
<1>2. PICK e : e = [event |-> "PacketArrival", packet |-> Path!Packet(c)]
  OBVIOUS
<1>3. PICK a : a = [call |-> c, fate |-> "queued"]
  OBVIOUS
<1>4. k \in Path!Kinds
  BY <1>1, TargetIsKind
<1>5. /\ Path!Total < MaxCalls /\ UNCHANGED <<client, dev, wire, m_cseq, beats>>
      /\ asked' = [asked EXCEPT ![k] = Append(asked[k], a)]
      /\ m_eq' = [m_eq EXCEPT ![k] = Append(m_eq[k], e)]
  BY <1>1, <1>2, <1>3 DEF Path!PostPkt
<1>6. /\ Known(k, wire[k], dev[k], asked[k], m_eq[k])
      /\ m_eq[k] \in Seq(Events) /\ asked[k] \in Seq(Asked)
      /\ m_eq = [l \in Path!Kinds |-> m_eq[l]] /\ asked = [l \in Path!Kinds |-> asked[l]]
      /\ wire = [l \in Path!Kinds |-> wire[l]]
  BY <1>4, WhatIsKnown
<1>7. /\ m_eq'[k] = Append(m_eq[k], e) /\ asked'[k] = Append(asked[k], a)
      /\ \A l \in Path!Kinds \ {k} : m_eq'[l] = m_eq[l] /\ asked'[l] = asked[l]
  BY <1>4, <1>5, <1>6
<1>8. Known(k, wire'[k], dev'[k], asked'[k], m_eq'[k])
  <2>1. Known(k, wire[k], dev[k], Append(asked[k], a), Append(m_eq[k], e))
    BY <1>1, <1>2, <1>3, <1>6, KnownWhenAsked
  <2>. QED
    BY <1>5, <1>7, <2>1, Zenon
<1>9. Todo(m_eq'[k]) = Todo(m_eq[k]) + 1 /\ Len(asked'[k]) = Len(asked[k]) + 1
  <2>1. e \in Events /\ e.event # "Quit" /\ a \in Asked
    BY <1>2, <1>3 DEF Events, Tasks, Packets, Asked
  <2>. QED
    BY <1>6, <1>7, <2>1, TodoCounts
<1>10. Counted'
  <2>1. ASSUME NEW l \in Path!Kinds
        PROVE  Len(asked'[l]) = Len(asked[l]) + (IF l = k THEN 1 ELSE 0)
    <3>1. Len(asked[l]) \in Nat
      BY WhatIsKnown
    <3>2. CASE l = k
      BY <1>9, <3>2
    <3>3. CASE l # k
      BY <1>7, <3>1, <3>3
    <3>. QED
      BY <3>2, <3>3
  <2>2. /\ Len(asked'[1]) = Len(asked[1]) + (IF 1 = k THEN 1 ELSE 0)
        /\ Len(asked'[2]) = Len(asked[2]) + (IF 2 = k THEN 1 ELSE 0)
        /\ Len(asked'[3]) = Len(asked[3]) + (IF 3 = k THEN 1 ELSE 0)
        /\ k \in {1, 2, 3}
    BY <1>4, <2>1, KindNumbers
  <2>3. /\ Len(asked[1]) \in Nat /\ Len(asked[2]) \in Nat /\ Len(asked[3]) \in Nat /\ Todo(m_eq[2]) \in Nat
        /\ Path!Total = Len(asked[1]) + Len(asked[2]) + Len(asked[3])
        /\ MaxCalls \in Nat /\ m_cseq \in Nat /\ beats \in Nat
    BY NumbersKnown
  <2>4. Todo(m_eq'[2]) = Todo(m_eq[2]) + (IF 2 = k THEN 1 ELSE 0)
    <3>1. CASE 2 = k
      BY <1>9, <3>1
    <3>2. CASE 2 # k
      BY <1>7, <2>3, <3>2, KindNumbers
    <3>. QED
      BY <3>1, <3>2
  <2>5. /\ m_cseq + Todo(m_eq[2]) <= Len(asked[2]) + beats /\ beats \in 0..MaxBeats
        /\ Path!Total < MaxCalls
    BY <1>5, KindNumbers DEF ArriveInv, Counted
  <2>6. Path!Total' = Len(asked'[1]) + Len(asked'[2]) + Len(asked'[3])
    BY KindNumbers DEF Path!Total
  <2> DEFINE x1 == Len(asked[1])
             x2 == Len(asked[2])
             x3 == Len(asked[3])
             y == Todo(m_eq[2])
             d1 == IF 1 = k THEN 1 ELSE 0
             d2 == IF 2 = k THEN 1 ELSE 0
             d3 == IF 3 = k THEN 1 ELSE 0
  <2>7. d1 \in 0..1 /\ d2 \in 0..1 /\ d3 \in 0..1 /\ d1 + d2 + d3 = 1
    BY <2>2
  <2>8. /\ Len(asked'[1]) = x1 + d1 /\ Len(asked'[2]) = x2 + d2 /\ Len(asked'[3]) = x3 + d3
        /\ Todo(m_eq'[2]) = y + d2
    BY <2>2, <2>4
  <2>9. /\ x1 \in Nat /\ x2 \in Nat /\ x3 \in Nat /\ y \in Nat
        /\ m_cseq + y <= x2 + beats /\ x1 + x2 + x3 < MaxCalls
    BY <2>3, <2>5
  <2> HIDE DEF x1, x2, x3, y, d1, d2, d3
  <2>10. (x1 + d1) + (x2 + d2) + (x3 + d3) <= MaxCalls /\ m_cseq + (y + d2) <= (x2 + d2) + beats
    BY <2>3, <2>7, <2>9
  <2>11. Path!Total' <= MaxCalls
    BY <2>6, <2>8, <2>10
  <2>12. m_cseq + Todo(m_eq'[2]) <= Len(asked'[2]) + beats
    BY <2>8, <2>10
  <2>. QED
    BY <1>5, <2>3, <2>5, <2>11, <2>12, KindNumbers DEF Counted
<1>11. Rising(wire'[Path!Types.SOUND], m_cseq')
  BY <1>5 DEF ArriveInv
<1>12. OfKinds'
  BY <1>5, <1>6 DEF ArriveInv, OfKinds
<1>. QED
  BY <1>4, <1>5, <1>7, <1>8, <1>10, <1>11, <1>12, KnownMoves

LEMMA ClientOnlyArrives ==
  ASSUME ArriveInv, client' \in {"releases", "released"}, UNCHANGED <<asked, m_eq, dev, wire, m_cseq, beats>>
  PROVE  ArriveInv'
<1>1. Path!Total' = Path!Total
  BY DEF Path!Total
<1>. QED
  BY <1>1 DEF ArriveInv, OfKinds, Counted

LEMMA HeartbeatLoopArrives ==
  ASSUME ArriveInv, Path!HeartbeatLoop
  PROVE  ArriveInv'
<1>1. PICK e : e = [event |-> "Heartbeat"]
  OBVIOUS
<1>2. /\ beats < MaxBeats /\ beats' = beats + 1 /\ UNCHANGED <<client, asked, dev, wire, m_cseq>>
      /\ m_eq' = [m_eq EXCEPT ![2] = Append(m_eq[2], e)]
  BY <1>1, KindNumbers DEF Path!HeartbeatLoop
<1>3. 2 \in Path!Kinds /\ 2 = Path!Types.SOUND
  BY KindNumbers
<1>4. /\ Known(2, wire[2], dev[2], asked[2], m_eq[2]) /\ m_eq[2] \in Seq(Events)
      /\ m_eq = [l \in Path!Kinds |-> m_eq[l]] /\ wire = [l \in Path!Kinds |-> wire[l]]
  BY <1>3, WhatIsKnown
<1>5. m_eq'[2] = Append(m_eq[2], e) /\ \A l \in Path!Kinds \ {2} : m_eq'[l] = m_eq[l]
  BY <1>2, <1>3, <1>4
<1>6. e \in Events \ Packets /\ e.event # "Quit"
  BY <1>1 DEF Events, Tasks, Packets
<1>7. Known(2, wire'[2], dev'[2], asked'[2], m_eq'[2])
  <2>1. Known(2, wire[2], dev[2], asked[2], Append(m_eq[2], e))
    BY <1>3, <1>4, <1>6, KnownWithEvent
  <2>. QED
    BY <1>2, <1>5, <2>1, Zenon
<1>8. Todo(m_eq'[2]) = Todo(m_eq[2]) + 1
  BY <1>4, <1>5, <1>6, TodoCounts
<1>9. Counted'
  <2>1. m_cseq \in Nat /\ beats \in Nat /\ Len(asked[2]) \in Nat /\ MaxBeats \in Nat /\ Todo(m_eq[2]) \in Nat
    BY NumbersKnown
  <2>2. m_cseq + Todo(m_eq[2]) <= Len(asked[2]) + beats /\ Path!Total <= MaxCalls
    BY KindNumbers DEF ArriveInv, Counted
  <2> DEFINE x == Len(asked[2])
             y == Todo(m_eq[2])
  <2>3. x \in Nat /\ y \in Nat /\ m_cseq + y <= x + beats /\ Todo(m_eq'[2]) = y + 1
    BY <1>8, <2>1, <2>2
  <2> HIDE DEF x, y
  <2>4. m_cseq + (y + 1) <= x + (beats + 1)
    BY <2>1, <2>3
  <2>5. m_cseq' + Todo(m_eq'[2]) <= Len(asked'[2]) + beats'
    BY <1>2, <2>3, <2>4 DEF x
  <2>6. Path!Total' = Path!Total
    BY <1>2 DEF Path!Total
  <2>7. beats' \in 0..MaxBeats
    BY <1>2, <2>1
  <2>. QED
    BY <1>2, <2>1, <2>2, <2>5, <2>6, <2>7, KindNumbers DEF Counted
<1>10. Rising(wire'[Path!Types.SOUND], m_cseq')
  BY <1>2 DEF ArriveInv
<1>11. OfKinds'
  BY <1>2, <1>4 DEF ArriveInv, OfKinds
<1>. QED
  BY <1>2, <1>3, <1>5, <1>7, <1>9, <1>10, <1>11, KnownMoves

\* A device goes on to stop; the PTZ may get a last report.
LEMMA StopDriverArrives ==
  ASSUME ArriveInv, NEW k \in Path!Kinds, Path!StopDriver(k)
  PROVE  ArriveInv'
<1> DEFINE plain == [dev[k] EXCEPT !.open = dev[k].open /\ k # Path!Types.SOUND]
<1>1. dev[k].at = "running" /\ UNCHANGED <<client, asked, m_eq, m_cseq, beats>>
  BY DEF Path!StopDriver
<1>2. PICK r \in (IF k = Path!Types.PTZ /\ dev[k].m_devState = "ONLINE" THEN Path!Send(dev[k])
                  ELSE {[dev |-> plain, sent |-> FALSE]}) :
        /\ dev' = [dev EXCEPT ![k] = [r.dev EXCEPT !.at = "stopping"]]
        /\ wire' = [wire EXCEPT ![k] = IF r.sent THEN Append(wire[k], Path!AngleReport(FALSE)) ELSE wire[k]]
  BY Zenon DEF Path!StopDriver
<1>3. /\ Known(k, wire[k], dev[k], asked[k], m_eq[k]) /\ dev[k] \in DeviceStates
      /\ dev[k].m_devState \in States /\ Cut(dev[k])
      /\ dev = [l \in Path!Kinds |-> dev[l]] /\ wire = [l \in Path!Kinds |-> wire[l]]
  BY WhatIsKnown
<1>4. /\ r.dev \in DeviceStates /\ r.dev.m_devState \in States /\ SameLife(r.dev, dev[k])
      /\ r.sent \in BOOLEAN /\ (r.sent => k = Path!Types.PTZ)
  <2>1. CASE r \in Path!Send(dev[k]) /\ k = Path!Types.PTZ
    BY <1>3, <2>1, SendKeeps, SendEnds
  <2>2. CASE r = [dev |-> plain, sent |-> FALSE]
    <3>1. PICK b \in BOOLEAN : b = (dev[k].open /\ k # Path!Types.SOUND)
      OBVIOUS
    <3>2. plain = [dev[k] EXCEPT !.open = b]
      BY <3>1
    <3> HIDE DEF plain
    <3>3. r.dev = plain /\ r.sent = FALSE
      BY <2>2
    <3>4. r.dev \in DeviceStates /\ r.dev.m_devState = dev[k].m_devState /\ SameLife(r.dev, dev[k])
      BY <1>3, <3>2, <3>3 DEF DeviceStates, SameLife
    <3>. QED
      BY <1>3, <3>3, <3>4
  <2> HIDE DEF plain
  <2>. QED
    BY <1>2, <2>1, <2>2
<1> HIDE DEF plain
<1>5. PICK d : d = [r.dev EXCEPT !.at = "stopping"]
  OBVIOUS
<1>6. Fine(d)
  <2>1. /\ d \in DeviceStates /\ d.m_devState \in States /\ d.at = "stopping" /\ d.worker = r.dev.worker
        /\ d.m_state = r.dev.m_state /\ d.late = r.dev.late
    BY <1>4, <1>5 DEF DeviceStates
  <2>. QED
    BY <1>1, <1>3, <1>4, <2>1 DEF Fine, Cut, SameLife
<1>7. PICK f : f = Path!AngleReport(FALSE)
  OBVIOUS
<1>8. PICK v : v = IF r.sent THEN Append(wire[k], f) ELSE wire[k]
  OBVIOUS
<1>9. dev' = [dev EXCEPT ![k] = d] /\ wire' = [wire EXCEPT ![k] = v]
  BY <1>2, <1>5, <1>7, <1>8, Zenon
<1>10. /\ dev'[k] = d /\ wire'[k] = v /\ OfKinds'
       /\ \A l \in Path!Kinds \ {k} : dev'[l] = dev[l] /\ wire'[l] = wire[l]
  BY <1>1, <1>3, <1>9 DEF ArriveInv, OfKinds
<1>11. Known(k, v, dev[k], asked[k], m_eq[k])
  <2>1. CASE r.sent
    <3>1. FALSE \in BOOLEAN
      OBVIOUS
    <3>2. f \in Frames(3) /\ Path!Own(3, f)
      BY <1>7, <3>1, ReportIs
    <3>3. k = 3
      BY <1>4, <2>1, KindNumbers
    <3>4. Known(k, Append(wire[k], f), dev[k], asked[k], m_eq[k])
      BY <1>3, <3>2, <3>3, KnownWithReport
    <3>. QED
      BY <1>8, <2>1, <3>4, Zenon
  <2>2. CASE ~r.sent
    BY <1>3, <1>8, <2>2, Zenon
  <2>. QED
    BY <2>1, <2>2
<1>12. Known(k, wire'[k], dev'[k], asked'[k], m_eq'[k])
  <2>1. Known(k, v, d, asked[k], m_eq[k])
    BY <1>6, <1>11, KnownWithState
  <2>. QED
    BY <1>1, <1>10, <2>1, Zenon
<1>13. Counted'
  BY <1>1, NumbersKnown, CountedStays
<1>14. Rising(wire'[Path!Types.SOUND], m_cseq')
  <2>1. wire'[2] = wire[2]
    <3>1. CASE k = 2
      <4>1. ~r.sent
        BY <1>4, <3>1, KindNumbers
      <4>. QED
        BY <1>8, <1>10, <3>1, <4>1
    <3>2. CASE k # 2
      BY <1>10, <3>2, KindNumbers
    <3>. QED
      BY <3>1, <3>2
  <2>. QED
    BY <1>1, <2>1, KindNumbers DEF ArriveInv
<1>. QED
  BY <1>1, <1>10, <1>12, <1>13, <1>14, KnownMoves

LEMMA EndedFine ==
  ASSUME NEW d, Fine(d)
  PROVE  Fine(Path!Ended(d))
<1>1. PICK e : e = Path!Ended(d)
  OBVIOUS
<1>2. /\ e \in DeviceStates /\ e.m_devState \in States /\ e.worker = "ended"
      /\ e.m_state = "STOPPED" /\ e.at = d.at /\ e.late = d.late
  BY <1>1 DEF Path!Ended, Fine, DeviceStates
<1>. QED
  BY <1>1, <1>2 DEF Fine, Cut

\* A thread of the device, or of the client that stops it, goes on, and nothing else happens.
LEMMA ThreadArrives ==
  ASSUME ArriveInv, NEW k \in Path!Kinds, NEW d, Fine(d), dev' = [dev EXCEPT ![k] = d],
         UNCHANGED <<client, asked, m_eq, wire, m_cseq, beats>>
  PROVE  ArriveInv'
<1>1. /\ Known(k, wire[k], dev[k], asked[k], m_eq[k]) /\ dev = [l \in Path!Kinds |-> dev[l]]
  BY WhatIsKnown
<1>2. dev'[k] = d /\ (\A l \in Path!Kinds \ {k} : dev'[l] = dev[l]) /\ OfKinds'
  BY <1>1 DEF ArriveInv, OfKinds
<1>3. Known(k, wire'[k], dev'[k], asked'[k], m_eq'[k])
  BY <1>1, <1>2, KnownWithState, Zenon
<1>4. Counted'
  BY NumbersKnown, CountedStays
<1>5. Rising(wire'[Path!Types.SOUND], m_cseq')
  BY DEF ArriveInv
<1>. QED
  BY <1>2, <1>3, <1>4, <1>5, KnownMoves

LEMMA StopPostArrives ==
  ASSUME ArriveInv, NEW k \in Path!Kinds, Path!StopPost(k)
  PROVE  ArriveInv'
<1> DEFINE e == [event |-> "Quit"]
           runs == dev[k].m_state = "RUNNING"
           d == [dev[k] EXCEPT !.m_shuttingDown = TRUE, !.at = IF runs THEN "posted" ELSE "joining"]
<1>1. /\ dev[k].at = "stopping" /\ UNCHANGED <<client, asked, wire, m_cseq, beats>>
      /\ m_eq' = [m_eq EXCEPT ![k] = IF runs THEN Append(m_eq[k], e) ELSE m_eq[k]]
      /\ dev' = [dev EXCEPT ![k].m_shuttingDown = TRUE, ![k].at = IF runs THEN "posted" ELSE "joining"]
  BY DEF Path!StopPost
<1>2. /\ Known(k, wire[k], dev[k], asked[k], m_eq[k]) /\ dev[k] \in DeviceStates
      /\ dev[k].m_devState \in States /\ Cut(dev[k]) /\ m_eq[k] \in Seq(Events)
      /\ m_eq = [l \in Path!Kinds |-> m_eq[l]] /\ dev = [l \in Path!Kinds |-> dev[l]]
  BY WhatIsKnown
<1>3. Fine(d)
  <2>1. /\ d \in DeviceStates /\ d.m_devState \in States /\ d.worker = dev[k].worker
        /\ d.m_state = dev[k].m_state /\ d.late = dev[k].late
        /\ d.at = IF runs THEN "posted" ELSE "joining"
    BY <1>2 DEF DeviceStates
  <2>. QED
    BY <1>1, <1>2, <2>1 DEF Fine, Cut
<1>4. dev' = [dev EXCEPT ![k] = d]
  BY <1>1, <1>2
<1> HIDE DEF d
<1>5. CASE ~runs
  <2>1. m_eq' = m_eq
    BY <1>1, <1>2, <1>5
  <2>. QED
    BY <1>1, <1>3, <1>4, <2>1, ThreadArrives
<1>6. CASE runs
  <2>1. /\ m_eq'[k] = Append(m_eq[k], e) /\ dev'[k] = d /\ OfKinds'
        /\ \A l \in Path!Kinds \ {k} : m_eq'[l] = m_eq[l] /\ dev'[l] = dev[l]
    BY <1>1, <1>2, <1>4, <1>6 DEF ArriveInv, OfKinds
  <2>2. e \in Events \ Packets /\ e.event = "Quit"
    BY DEF Events, Tasks, Packets
  <2> HIDE DEF e
  <2>3. Known(k, wire[k], d, asked[k], Append(m_eq[k], e))
    BY <1>2, <1>3, <2>2, KnownWithEvent, KnownWithState
  <2>4. Known(k, wire'[k], dev'[k], asked'[k], m_eq'[k])
    BY <1>1, <2>1, <2>3, Zenon
  <2>5. Todo(m_eq'[2]) = Todo(m_eq[2])
    <3>1. CASE k = 2
      BY <1>2, <2>1, <2>2, <3>1, TodoCounts
    <3>2. CASE k # 2
      BY <2>1, <3>2, KindNumbers
    <3>. QED
      BY <3>1, <3>2
  <2>6. Counted'
    BY <1>1, <2>5, NumbersKnown, CountedStays
  <2>7. Rising(wire'[Path!Types.SOUND], m_cseq')
    BY <1>1 DEF ArriveInv
  <2>. QED
    BY <1>1, <2>1, <2>4, <2>6, <2>7, KnownMoves
<1>. QED
  BY <1>5, <1>6

LEMMA StopFlagArrives ==
  ASSUME ArriveInv, NEW k \in Path!Kinds, Path!StopFlag(k)
  PROVE  ArriveInv'
<1> DEFINE d == [dev[k] EXCEPT !.m_state = "QUIT", !.at = "joining"]
<1>1. /\ dev[k].at = "posted" /\ UNCHANGED <<client, asked, m_eq, wire, m_cseq, beats>>
      /\ dev' = [dev EXCEPT ![k].m_state = "QUIT", ![k].at = "joining"]
  BY DEF Path!StopFlag
<1>2. /\ dev[k] \in DeviceStates /\ dev[k].m_devState \in States /\ Cut(dev[k])
      /\ dev = [l \in Path!Kinds |-> dev[l]]
  BY WhatIsKnown
<1>3. Fine(d)
  <2>1. /\ d \in DeviceStates /\ d.m_devState \in States /\ d.worker = dev[k].worker
        /\ d.m_state = "QUIT" /\ d.late = dev[k].late /\ d.at = "joining"
    BY <1>2 DEF DeviceStates
  <2>. QED
    BY <1>1, <1>2, <2>1 DEF Fine, Cut
<1>4. dev' = [dev EXCEPT ![k] = d]
  BY <1>1, <1>2
<1>. QED
  BY <1>1, <1>3, <1>4, ThreadArrives

LEMMA StopReturnArrives ==
  ASSUME ArriveInv, NEW k \in Path!Kinds, Path!StopReturn(k)
  PROVE  ArriveInv'
<1>1. PICK s : s = Path!SetState(dev[k], "OFFLINE")
  OBVIOUS
<1>2. PICK d : d = [s EXCEPT !.at = "stopped"]
  OBVIOUS
<1>3. /\ dev[k].at = "joining" /\ UNCHANGED <<client, asked, m_eq, wire, m_cseq, beats>>
      /\ dev' = [dev EXCEPT ![k] = d]
  BY <1>1, <1>2 DEF Path!StopReturn
<1>4. dev[k] \in DeviceStates /\ dev[k].m_devState \in States /\ Cut(dev[k])
  BY WhatIsKnown
<1>5. s \in DeviceStates /\ s.m_devState \in States /\ SameLife(s, dev[k])
  BY <1>1, <1>4, SetStateKeeps DEF Path!SetState, DeviceStates, States
<1>6. Fine(d)
  <2>1. /\ d \in DeviceStates /\ d.m_devState \in States /\ d.worker = s.worker
        /\ d.m_state = s.m_state /\ d.late = s.late /\ d.at = "stopped"
    BY <1>2, <1>5 DEF DeviceStates
  <2>. QED
    BY <1>3, <1>4, <1>5, <2>1 DEF Fine, Cut, SameLife
<1>. QED
  BY <1>3, <1>6, ThreadArrives

LEMMA BeginArrives ==
  ASSUME ArriveInv, NEW k \in Path!Kinds, Path!Begin(k)
  PROVE  ArriveInv'
<1> DEFINE d == [dev[k] EXCEPT !.m_state = "RUNNING", !.worker = "testing"]
<1>1. /\ dev[k].worker = "starting" /\ UNCHANGED <<client, asked, m_eq, wire, m_cseq, beats>>
      /\ dev' = [dev EXCEPT ![k].m_state = "RUNNING", ![k].worker = "testing"]
  BY DEF Path!Begin
<1>2. /\ dev[k] \in DeviceStates /\ dev[k].m_devState \in States /\ Cut(dev[k])
      /\ dev = [l \in Path!Kinds |-> dev[l]]
  BY WhatIsKnown
<1>3. Fine(d)
  <2>1. /\ d \in DeviceStates /\ d.m_devState \in States /\ d.worker = "testing"
        /\ d.m_state = "RUNNING" /\ d.late = dev[k].late /\ d.at = dev[k].at
    BY <1>2 DEF DeviceStates
  <2>. QED
    BY <1>1, <1>2, <2>1 DEF Fine, Cut
<1>4. dev' = [dev EXCEPT ![k] = d]
  BY <1>1, <1>2
<1>. QED
  BY <1>1, <1>3, <1>4, ThreadArrives

LEMMA TestStateArrives ==
  ASSUME ArriveInv, NEW k \in Path!Kinds, Path!TestState(k)
  PROVE  ArriveInv'
<1>1. PICK d : d = IF dev[k].m_state = "RUNNING" THEN [dev[k] EXCEPT !.worker = "popping"]
                   ELSE Path!Ended(dev[k])
  OBVIOUS
<1>2. /\ dev[k].worker = "testing" /\ UNCHANGED <<client, asked, m_eq, wire, m_cseq, beats>>
      /\ dev' = [dev EXCEPT ![k] = d]
  BY <1>1 DEF Path!TestState
<1>3. dev[k] \in DeviceStates /\ dev[k].m_devState \in States /\ Cut(dev[k])
  BY WhatIsKnown
<1>4. Fine(d)
  <2>1. CASE dev[k].m_state = "RUNNING"
    <3>1. /\ d \in DeviceStates /\ d.m_devState \in States /\ d.worker = "popping"
          /\ d.m_state = "RUNNING" /\ d.late = dev[k].late /\ d.at = dev[k].at
      BY <1>1, <1>3, <2>1 DEF DeviceStates
    <3>2. dev[k].late = 0
      BY <1>2, <1>3, <2>1 DEF Cut
    <3>. QED
      BY <3>1, <3>2 DEF Fine, Cut
  <2>2. CASE dev[k].m_state # "RUNNING"
    <3>1. d = Path!Ended(dev[k])
      BY <1>1, <2>2
    <3>2. Fine(dev[k])
      BY <1>3 DEF Fine
    <3>. QED
      BY <3>1, <3>2, EndedFine
  <2>. QED
    BY <2>1, <2>2
<1>. QED
  BY <1>2, <1>4, ThreadArrives

(* The worker takes a packet: its call is sent, or dropped. *)
LEMMA PacketArrives ==
  ASSUME ArriveInv, NEW k \in Path!Kinds, NEW fate \in {"sent", "dropped"},
         Path!Pops(k, "PacketArrival"),
         m_eq' = [m_eq EXCEPT ![k] = Tail(m_eq[k])], Path!Settle(k, fate),
         NEW d, Fine(d), dev' = [dev EXCEPT ![k] = d],
         NEW f, f = Path!Handler(Head(m_eq[k]).packet),
         wire' = [wire EXCEPT ![k] = IF fate = "sent" THEN Append(wire[k], f) ELSE wire[k]],
         m_cseq' = m_cseq \/ (k = Path!Types.SOUND /\ m_cseq' = m_cseq + 1),
         fate = "sent" /\ k = Path!Types.SOUND => m_cseq' = m_cseq + 1,
         UNCHANGED <<client, beats>>
  PROVE  ArriveInv'
<1>1. /\ Known(k, wire[k], dev[k], asked[k], m_eq[k])
      /\ m_eq[k] \in Seq(Events) /\ asked[k] \in Seq(Asked) /\ m_eq[k] # <<>>
      /\ m_eq = [l \in Path!Kinds |-> m_eq[l]] /\ asked = [l \in Path!Kinds |-> asked[l]]
      /\ dev = [l \in Path!Kinds |-> dev[l]] /\ wire = [l \in Path!Kinds |-> wire[l]]
  BY WhatIsKnown DEF Path!Pops
<1>2. Head(m_eq[k]) \in Packets /\ Head(m_eq[k]).event # "Quit"
  <2>1. Head(m_eq[k]) \in Events /\ Head(m_eq[k]).event = "PacketArrival"
    BY <1>1 DEF Path!Pops
  <2>. QED
    BY <2>1 DEF Events, Tasks
<1>3. Waiting(asked[k]) # {}
  <2>1. 1 \in Places(m_eq[k], Packets)
    BY <1>1, <1>2 DEF Places
  <2>2. Waits(m_eq[k], asked[k])
    BY <1>1 DEF Known
  <2>. QED
    BY <2>1, <2>2 DEF Waits
<1>4. /\ asked'[k] \in Seq(Asked) /\ asked' = [l \in Path!Kinds |-> asked'[l]]
      /\ \A l \in Path!Kinds \ {k} : asked'[l] = asked[l]
      /\ \E n \in Waiting(asked[k]) : Settled(asked[k], asked'[k], n, fate)
  BY <1>1, <1>3, FirstSettled
<1>5. PICK q : q = Tail(m_eq[k])
  OBVIOUS
<1>6. /\ m_eq'[k] = q /\ \A l \in Path!Kinds \ {k} : m_eq'[l] = m_eq[l]
  BY <1>1, <1>5
<1>7. PICK v : v = IF fate = "sent" THEN Append(wire[k], f) ELSE wire[k]
  OBVIOUS
<1>8. /\ wire'[k] = v /\ dev'[k] = d /\ OfKinds'
      /\ \A l \in Path!Kinds \ {k} : wire'[l] = wire[l] /\ dev'[l] = dev[l]
  BY <1>1, <1>4, <1>7 DEF OfKinds
<1>9. m_cseq \in Nat
  BY NumbersKnown
<1>10. PICK t : t = asked'[k]
  OBVIOUS
<1>11. /\ Known(k, v, d, t, Tail(m_eq[k]))
       /\ k = Path!Types.SOUND => f \in JsonFrames /\ f.cseq = m_cseq + 1
  <2>1. PICK s : s = asked[k]
    OBVIOUS
  <2>2. PICK o : o = m_eq[k]
    OBVIOUS
  <2>3. PICK w : w = wire[k]
    OBVIOUS
  <2>4. PICK n : Settled(s, t, n, fate)
    BY <1>4, <1>10, <2>1
  <2>5. /\ t \in Seq(Asked) /\ s \in Seq(Asked) /\ o \in Seq(Events) /\ o # <<>> /\ Head(o) \in Packets
        /\ f = Path!Handler(Head(o).packet) /\ v = IF fate = "sent" THEN Append(w, f) ELSE w
    BY <1>1, <1>2, <1>4, <1>7, <1>10, <2>1, <2>2, <2>3
  <2>6. Known(k, w, dev[k], s, o)
    BY <1>1, <2>1, <2>2, <2>3
  <2>7. Known(k, v, d, t, Tail(o))
    BY <1>9, <2>4, <2>5, <2>6, KnownWhenSettled
  <2>8. k = Path!Types.SOUND => f \in JsonFrames /\ f.cseq = m_cseq + 1
    BY <1>9, <2>4, <2>5, <2>6, HeadUnderstood
  <2>. QED
    BY <2>2, <2>7, <2>8, Zenon
<1>12. Known(k, wire'[k], dev'[k], asked'[k], m_eq'[k])
  BY <1>5, <1>6, <1>8, <1>10, <1>11, Zenon
<1>13. /\ Todo(m_eq[2]) \in Nat /\ Todo(m_eq'[2]) \in Nat
       /\ Todo(m_eq'[2]) = IF k = 2 THEN Todo(m_eq[2]) - 1 ELSE Todo(m_eq[2])
  <2>1. CASE k = 2
    <3>1. Tail(m_eq[k]) \in Seq(Events)
      BY <1>1
    <3>2. Todo(m_eq[k]) \in Nat /\ Todo(q) \in Nat /\ Todo(q) = Todo(m_eq[k]) - 1
      BY <1>1, <1>2, <1>5, <3>1, TodoCounts
    <3>. QED
      BY <1>6, <2>1, <3>2
  <2>2. CASE k # 2
    <3>1. m_eq'[2] = m_eq[2] /\ Todo(m_eq[2]) \in Nat
      BY <1>6, <2>2, KindNumbers, NumbersKnown
    <3>. QED
      BY <2>2, <3>1
  <2>. QED
    BY <2>1, <2>2
<1>14. Counted'
  <2>1. ASSUME NEW l \in Path!Kinds PROVE Len(asked'[l]) = Len(asked[l])
    <3>1. asked[l] \in Seq(Asked)
      BY WhatIsKnown
    <3>2. CASE l = k
      <4>1. DOMAIN t = DOMAIN asked[k] /\ t \in Seq(Asked)
        BY <1>4, <1>10 DEF Settled
      <4>2. Len(t) = Len(asked[k])
        <5>1. /\ DOMAIN t = 1..Len(t) /\ Len(t) \in Nat
              /\ DOMAIN asked[k] = 1..Len(asked[k]) /\ Len(asked[k]) \in Nat
          BY <1>1, <4>1
        <5>2. PICK x \in Nat : x = Len(t)
          BY <5>1
        <5>3. PICK y \in Nat : y = Len(asked[k])
          BY <5>1
        <5>4. 1..x = 1..y
          BY <4>1, <5>1, <5>2, <5>3
        <5>5. x = y
          <6>1. x \in 1..x \/ x = 0
            BY ONLY x \in Nat
          <6>2. y \in 1..y \/ y = 0
            BY ONLY y \in Nat
          <6>3. x <= y
            BY <5>4, <6>1
          <6>4. y <= x
            BY <5>4, <6>2
          <6>. QED
            BY <6>3, <6>4
        <5>. QED
          BY <5>2, <5>3, <5>5
      <4>. QED
        BY <1>10, <3>2, <4>2
    <3>3. CASE l # k
      BY <1>4, <3>3
    <3>. QED
      BY <3>2, <3>3
  <2>2. m_cseq' \in Nat /\ (k # 2 => m_cseq' = m_cseq) /\ m_cseq' <= m_cseq + 1
    BY <1>9, KindNumbers
  <2>3. m_cseq' + Todo(m_eq'[2]) <= m_cseq + Todo(m_eq[2])
    <3> DEFINE y == Todo(m_eq[2])
               z == Todo(m_eq'[2])
    <3>1. y \in Nat /\ z \in Nat /\ z = IF k = 2 THEN y - 1 ELSE y
      BY <1>13
    <3> HIDE DEF y, z
    <3>2. m_cseq \in Nat /\ m_cseq' \in Nat
      BY <2>2, NumbersKnown
    <3>3. m_cseq' + z <= m_cseq + y
      <4>1. CASE k = 2
        <5>1. z = y - 1 /\ m_cseq' <= m_cseq + 1
          BY <2>2, <3>1, <4>1
        <5>. QED
          BY <3>1, <3>2, <5>1, OneMoved
      <4>2. CASE k # 2
        BY <2>2, <3>1, <3>2, <4>2
      <4>. QED
        BY <4>1, <4>2
    <3>. QED
      BY <3>3 DEF y, z
  <2>. QED
    BY <1>13, <2>1, <2>2, <2>3, CountedStays
<1>15. Rising(wire'[2], m_cseq')
  <2>1. Rising(wire[2], m_cseq) /\ wire[2] \in Seq(JsonFrames)
    BY NumbersKnown
  <2>2. CASE k = 2
    <3>1. f \in JsonFrames /\ f.cseq = m_cseq + 1
      BY <1>11, <2>2, KindNumbers
    <3>2. Rising(Append(wire[2], f), m_cseq + 1)
      BY <1>9, <2>1, <3>1, RisingGrows
    <3>3. Rising(wire[2], m_cseq + 1)
      BY <1>9, <2>1, RisingStays
    <3>4. CASE fate = "sent"
      <4>1. wire'[2] = Append(wire[2], f) /\ m_cseq' = m_cseq + 1
        BY <1>7, <1>8, <2>2, <3>4, KindNumbers
      <4>. QED
        BY <3>2, <4>1, Zenon
    <3>5. CASE fate # "sent"
      <4>1. wire'[2] = wire[2] /\ (m_cseq' = m_cseq + 1 \/ m_cseq' = m_cseq)
        BY <1>7, <1>8, <2>2, <3>5
      <4>. QED
        BY <2>1, <3>3, <4>1, Zenon
    <3>. QED
      BY <3>4, <3>5
  <2>3. CASE k # 2
    BY <1>8, <2>1, <2>3, KindNumbers
  <2>. QED
    BY <2>2, <2>3
<1>16. Rising(wire'[Path!Types.SOUND], m_cseq')
  BY <1>15, KindNumbers
<1>17. client' = client
  OBVIOUS
<1>18. \A l \in Path!Kinds \ {k} :
         wire'[l] = wire[l] /\ dev'[l] = dev[l] /\ asked'[l] = asked[l] /\ m_eq'[l] = m_eq[l]
  BY <1>4, <1>6, <1>8
<1>. QED
  BY <1>8, <1>12, <1>14, <1>16, <1>17, <1>18, KnownMoves

\* The worker that popped an event goes back to its test, wherever its sending left the device.
LEMMA HandledFine ==
  ASSUME NEW d, Fine(d), d.worker = "popping",
         NEW c \in DeviceStates, c.m_devState \in States, SameLife(c, d)
  PROVE  Fine(Path!Handled(c))
<1>1. PICK h : h = Path!Handled(c)
  OBVIOUS
<1>2. c.late = 0
  BY DEF Fine, Cut, SameLife
<1>3. /\ h \in DeviceStates /\ h.m_devState \in States /\ h.worker = "testing"
      /\ h.m_state = c.m_state /\ h.at = c.at /\ h.late = IF c.m_state = "QUIT" THEN 1 ELSE 0
  <2>1. CASE c.m_state = "QUIT"
    <3>1. h = [c EXCEPT !.worker = "testing", !.late = 1]
      BY <1>1, <1>2, <2>1 DEF Path!Handled
    <3>2. c.m_devState \in States
      OBVIOUS
    <3>3. h \in DeviceStates
      <4>1. PICK g : g = [c EXCEPT !.worker = "testing"]
        OBVIOUS
      <4>2. g \in DeviceStates
        BY <4>1 DEF DeviceStates
      <4>3. h = [g EXCEPT !.late = 1]
        BY <3>1, <4>1 DEF DeviceStates
      <4>4. 1 \in 0..1
        OBVIOUS
      <4>. QED
        BY <4>2, <4>3, <4>4 DEF DeviceStates
    <3>4. h.m_devState = c.m_devState /\ h.worker = "testing" /\ h.m_state = c.m_state /\ h.at = c.at /\ h.late = 1
      BY <3>1 DEF DeviceStates
    <3>. QED
      BY <2>1, <3>2, <3>3, <3>4
  <2>2. CASE c.m_state # "QUIT"
    <3>1. h = [c EXCEPT !.worker = "testing", !.late = 0]
      BY <1>1, <1>2, <2>2 DEF Path!Handled
    <3>2. c.m_devState \in States
      OBVIOUS
    <3>3. h \in DeviceStates
      <4>1. PICK g : g = [c EXCEPT !.worker = "testing"]
        OBVIOUS
      <4>2. g \in DeviceStates
        BY <4>1 DEF DeviceStates
      <4>3. h = [g EXCEPT !.late = 0]
        BY <3>1, <4>1 DEF DeviceStates
      <4>4. 0 \in 0..1
        OBVIOUS
      <4>. QED
        BY <4>2, <4>3, <4>4 DEF DeviceStates
    <3>4. h.m_devState = c.m_devState /\ h.worker = "testing" /\ h.m_state = c.m_state /\ h.at = c.at /\ h.late = 0
      BY <3>1 DEF DeviceStates
    <3>. QED
      BY <2>2, <3>2, <3>3, <3>4
  <2>. QED
    BY <2>1, <2>2
<1>. QED
  BY <1>1, <1>3 DEF Fine, Cut, SameLife

LEMMA RejectArrives ==
  ASSUME ArriveInv, NEW k \in Path!Kinds, Path!Reject(k)
  PROVE  ArriveInv'
<1>1. PICK d : d = Path!Handled(dev[k])
  OBVIOUS
<1>2. /\ Path!Pops(k, "PacketArrival") /\ dev[k].worker = "popping"
      /\ m_eq' = [m_eq EXCEPT ![k] = Tail(m_eq[k])] /\ Path!Settle(k, "dropped")
      /\ dev' = [dev EXCEPT ![k] = d]
      /\ UNCHANGED <<client, wire, m_cseq, beats>>
  BY <1>1 DEF Path!Reject, Path!Pops
<1>3. dev[k] \in DeviceStates /\ Fine(dev[k]) /\ wire = [l \in Path!Kinds |-> wire[l]]
  BY WhatIsKnown DEF Fine
<1>4. Fine(d)
  <2>1. dev[k].m_devState \in States /\ SameLife(dev[k], dev[k])
    BY <1>3 DEF Fine, SameLife
  <2>. QED
    BY <1>1, <1>2, <1>3, <2>1, HandledFine
<1>5. PICK f : f = Path!Handler(Head(m_eq[k]).packet)
  OBVIOUS
<1>6. wire' = [wire EXCEPT ![k] = IF "dropped" = "sent" THEN Append(wire[k], f) ELSE wire[k]]
  BY <1>2, <1>3
<1>. QED
  BY <1>2, <1>4, <1>5, <1>6, PacketArrives

LEMMA DispatchArrives ==
  ASSUME ArriveInv, NEW k \in Path!Kinds, Path!Dispatch(k)
  PROVE  ArriveInv'
<1>1. PICK f : f = Path!Handler(Head(m_eq[k]).packet)
  OBVIOUS
<1>2. /\ Path!Pops(k, "PacketArrival") /\ dev[k].worker = "popping"
      /\ m_eq' = [m_eq EXCEPT ![k] = Tail(m_eq[k])]
      /\ m_cseq' = IF k = Path!Types.SOUND THEN m_cseq + 1 ELSE m_cseq
      /\ UNCHANGED <<client, beats>>
  BY DEF Path!Dispatch, Path!Pops
<1>3. PICK r \in Path!Send(dev[k]) :
        /\ dev' = [dev EXCEPT ![k] = Path!Handled(r.dev)]
        /\ wire' = [wire EXCEPT ![k] = IF r.sent THEN Append(wire[k], f) ELSE wire[k]]
        /\ Path!Settle(k, IF r.sent THEN "sent" ELSE "dropped")
  BY <1>1, Zenon DEF Path!Dispatch
<1>4. Fine(dev[k]) /\ dev[k] \in DeviceStates /\ dev[k].m_devState \in States
  BY WhatIsKnown DEF Fine
<1>5. /\ r.dev \in DeviceStates /\ r.dev.m_devState \in States /\ SameLife(r.dev, dev[k])
      /\ r.sent \in BOOLEAN
  BY <1>3, <1>4, SendKeeps, SendEnds
<1>6. PICK d : d = Path!Handled(r.dev)
  OBVIOUS
<1>7. Fine(d) /\ dev' = [dev EXCEPT ![k] = d]
  <2>1. Fine(Path!Handled(r.dev))
    BY <1>2, <1>4, <1>5, HandledFine
  <2>. QED
    BY <1>3, <1>6, <2>1, Zenon
<1>8. PICK fate : fate = IF r.sent THEN "sent" ELSE "dropped"
  OBVIOUS
<1>9. /\ fate \in {"sent", "dropped"} /\ Path!Settle(k, fate)
      /\ wire' = [wire EXCEPT ![k] = IF fate = "sent" THEN Append(wire[k], f) ELSE wire[k]]
  <2>1. CASE r.sent
    <3>1. fate = "sent"
      BY <1>8, <2>1
    <3>. QED
      BY <1>3, <1>8, <2>1, <3>1
  <2>2. CASE ~r.sent
    <3>1. fate = "dropped" /\ fate # "sent"
      BY <1>8, <2>2
    <3>. QED
      BY <1>3, <1>8, <2>2, <3>1
  <2>. QED
    BY <2>1, <2>2
<1>10. /\ m_cseq' = m_cseq \/ (k = Path!Types.SOUND /\ m_cseq' = m_cseq + 1)
       /\ fate = "sent" /\ k = Path!Types.SOUND => m_cseq' = m_cseq + 1
  BY <1>2
<1>. QED
  BY <1>1, <1>2, <1>7, <1>9, <1>10, PacketArrives

\* The loudspeaker's heartbeat is a command of its own accord, with a number.
LEMMA HeartbeatArrives ==
  ASSUME ArriveInv, NEW k \in Path!Kinds, Path!Heartbeat(k)
  PROVE  ArriveInv'
<1>1. PICK f : f = Path!BuildJson("online", "none")
  OBVIOUS
<1>2. /\ m_eq[k] # <<>> /\ Head(m_eq[k]).event = "Heartbeat" /\ dev[k].worker = "popping"
      /\ m_eq' = [m_eq EXCEPT ![k] = Tail(m_eq[k])] /\ m_cseq' = m_cseq + 1
      /\ UNCHANGED <<client, asked, beats>>
  BY DEF Path!Heartbeat, Path!Pops
<1>3. PICK r \in Path!Send(dev[k]) :
        /\ dev' = [dev EXCEPT ![k] = Path!Handled(r.dev)]
        /\ wire' = [wire EXCEPT ![k] = IF r.sent THEN Append(wire[k], f) ELSE wire[k]]
  BY <1>1, Zenon DEF Path!Heartbeat
<1>4. /\ Known(k, wire[k], dev[k], asked[k], m_eq[k]) /\ Fine(dev[k])
      /\ m_eq[k] \in Seq(Events) /\ asked[k] \in Seq(Asked)
      /\ dev[k] \in DeviceStates /\ dev[k].m_devState \in States
      /\ m_eq = [l \in Path!Kinds |-> m_eq[l]]
      /\ dev = [l \in Path!Kinds |-> dev[l]] /\ wire = [l \in Path!Kinds |-> wire[l]]
  BY WhatIsKnown DEF Fine
<1>5. PICK d : d = Path!Handled(r.dev)
  OBVIOUS
<1>6. Fine(d) /\ r.sent \in BOOLEAN
  BY <1>2, <1>3, <1>4, <1>5, SendKeeps, SendEnds, HandledFine
<1>7. k = 2
  <2>1. 1 \in DOMAIN m_eq[k] /\ m_eq[k][1] = Head(m_eq[k])
    BY <1>2, <1>4
  <2>2. m_eq[k][1].event = "Heartbeat"
    BY <1>2, <2>1
  <2>. QED
    BY <1>4, <2>1, <2>2, KindNumbers DEF Known
<1>8. /\ m_cseq \in Nat /\ Rising(wire[2], m_cseq) /\ wire[2] \in Seq(JsonFrames) /\ Todo(m_eq[2]) \in Nat
  BY NumbersKnown
<1>9. f \in JsonFrames /\ f.command = "online" /\ f.cseq = m_cseq + 1
  <2>1. "online" \in CommandNames /\ "none" \in Params
    BY DEF CommandNames, Params
  <2>. QED
    BY <1>1, <1>8, <2>1, JsonIs
<1>10. f \in Frames(2) /\ Path!Own(2, f)
  BY <1>9, FramesAre, KindNumbers DEF Path!Own
<1>11. PICK q : q = Tail(m_eq[k])
  OBVIOUS
<1>12. PICK v : v = IF r.sent THEN Append(wire[k], f) ELSE wire[k]
  OBVIOUS
<1>13. /\ m_eq'[k] = q /\ dev'[k] = d /\ wire'[k] = v /\ OfKinds'
       /\ \A l \in Path!Kinds \ {k} : wire'[l] = wire[l] /\ dev'[l] = dev[l] /\ m_eq'[l] = m_eq[l]
  <2>1. m_eq' = [m_eq EXCEPT ![k] = q] /\ dev' = [dev EXCEPT ![k] = d] /\ wire' = [wire EXCEPT ![k] = v]
    BY <1>2, <1>3, <1>5, <1>11, <1>12, Zenon
  <2>. QED
    BY <1>2, <1>4, <2>1 DEF ArriveInv, OfKinds
<1>14. Known(k, wire'[k], dev'[k], asked'[k], m_eq'[k])
  <2>1. Head(m_eq[k]) \notin Packets
    BY <1>2 DEF Packets
  <2>2. Known(k, wire[k], dev[k], asked[k], q)
    <3>1. Known(k, wire[k], dev[k], asked[k], Tail(m_eq[k]))
      BY <1>2, <1>4, <2>1, KnownWithoutEvent
    <3>. QED
      BY <1>11, <3>1, Zenon
  <2>3. Known(k, v, dev[k], asked[k], q)
    <3>1. CASE r.sent
      <4>1. f \in Frames(k) /\ Path!Own(k, f)
        BY <1>7, <1>10
      <4>2. Known(k, Append(wire[k], f), dev[k], asked[k], q)
        BY <2>2, <4>1, KnownWithReport
      <4>. QED
        BY <1>12, <3>1, <4>2, Zenon
    <3>2. CASE ~r.sent
      BY <1>12, <2>2, <3>2, Zenon
    <3>. QED
      BY <3>1, <3>2
  <2>4. Known(k, v, d, asked[k], q)
    BY <1>6, <2>3, KnownWithState
  <2>. QED
    BY <1>2, <1>13, <2>4, Zenon
<1>15. Counted'
  <2>1. Todo(m_eq'[2]) \in Nat /\ Todo(m_eq'[2]) = Todo(m_eq[2]) - 1
    <3>1. q \in Seq(Events)
      BY <1>2, <1>4, <1>11
    <3>2. Todo(q) \in Nat /\ Todo(q) = Todo(m_eq[k]) - 1
      BY <1>2, <1>4, <1>11, <3>1, TodoCounts
    <3>. QED
      BY <1>7, <1>13, <3>2
  <2>2. m_cseq' + Todo(m_eq'[2]) <= m_cseq + Todo(m_eq[2])
    BY <1>2, <1>8, <2>1
  <2>3. m_cseq' \in Nat /\ beats' = beats /\ \A l \in Path!Kinds : Len(asked'[l]) = Len(asked[l])
    BY <1>2, <1>8
  <2>. QED
    BY <2>1, <2>2, <2>3, CountedStays
<1>16. Rising(wire'[Path!Types.SOUND], m_cseq')
  <2>1. Rising(Append(wire[2], f), m_cseq + 1)
    BY <1>8, <1>9, RisingGrows
  <2>2. Rising(wire[2], m_cseq + 1)
    BY <1>8, RisingStays
  <2>3. wire'[2] = Append(wire[2], f) \/ wire'[2] = wire[2]
    BY <1>7, <1>12, <1>13
  <2>4. Rising(wire'[2], m_cseq')
    BY <1>2, <2>1, <2>2, <2>3, Zenon
  <2>. QED
    BY <2>4, KindNumbers
<1>17. \A l \in Path!Kinds \ {k} :
         wire'[l] = wire[l] /\ dev'[l] = dev[l] /\ asked'[l] = asked[l] /\ m_eq'[l] = m_eq[l]
  BY <1>2, <1>13
<1>. QED
  BY <1>2, <1>13, <1>14, <1>15, <1>16, <1>17, KnownMoves

LEMMA QuitArrives ==
  ASSUME ArriveInv, NEW k \in Path!Kinds, Path!Quit(k)
  PROVE  ArriveInv'
<1>1. PICK d : d = Path!Ended(dev[k])
  OBVIOUS
<1>2. PICK q : q = Tail(m_eq[k])
  OBVIOUS
<1>3. /\ m_eq[k] # <<>> /\ Head(m_eq[k]).event = "Quit"
      /\ m_eq' = [m_eq EXCEPT ![k] = q] /\ dev' = [dev EXCEPT ![k] = d]
      /\ UNCHANGED <<client, asked, wire, m_cseq, beats>>
  BY <1>1, <1>2 DEF Path!Quit, Path!Pops
<1>4. /\ Known(k, wire[k], dev[k], asked[k], m_eq[k]) /\ Fine(dev[k])
      /\ m_eq[k] \in Seq(Events) /\ asked[k] \in Seq(Asked)
      /\ m_eq = [l \in Path!Kinds |-> m_eq[l]] /\ dev = [l \in Path!Kinds |-> dev[l]]
  BY WhatIsKnown DEF Fine
<1>5. Fine(d)
  BY <1>1, <1>4, EndedFine
<1>6. /\ m_eq'[k] = q /\ dev'[k] = d /\ OfKinds'
      /\ \A l \in Path!Kinds \ {k} : dev'[l] = dev[l] /\ m_eq'[l] = m_eq[l]
  BY <1>3, <1>4 DEF ArriveInv, OfKinds
<1>7. Known(k, wire'[k], dev'[k], asked'[k], m_eq'[k])
  <2>1. Head(m_eq[k]) \notin Packets
    BY <1>3 DEF Packets
  <2>2. Known(k, wire[k], dev[k], asked[k], Tail(m_eq[k]))
    BY <1>3, <1>4, <2>1, KnownWithoutEvent
  <2>3. Known(k, wire[k], d, asked[k], Tail(m_eq[k]))
    BY <1>5, <2>2, KnownWithState
  <2>. QED
    BY <1>2, <1>3, <1>6, <2>3, Zenon
<1>8. Counted'
  <2>1. Todo(m_eq'[2]) = Todo(m_eq[2])
    <3>1. CASE k = 2
      BY <1>2, <1>3, <1>4, <1>6, <3>1, TodoCounts
    <3>2. CASE k # 2
      BY <1>6, <3>2, KindNumbers
    <3>. QED
      BY <3>1, <3>2
  <2>. QED
    BY <1>3, <2>1, NumbersKnown, CountedStays
<1>9. Rising(wire'[Path!Types.SOUND], m_cseq')
  BY <1>3 DEF ArriveInv
<1>. QED
  BY <1>3, <1>6, <1>7, <1>8, <1>9, KnownMoves

-----------------------------------------------------------------------------
LEMMA NextArrives == ArriveInv /\ Path!Next => ArriveInv'
<1> SUFFICES ASSUME ArriveInv, Path!Next PROVE ArriveInv'
  OBVIOUS
<1>1. ASSUME NEW c \in Path!Calls, Path!PostPkt(c) PROVE ArriveInv'
  BY <1>1, PostPktArrives
<1>2. CASE Path!ReleaseBegin
  BY <1>2, ClientOnlyArrives DEF Path!ReleaseBegin
<1>3. CASE Path!Releases
  <2>1. CASE Path!ReleaseReturn
    BY <2>1, ClientOnlyArrives DEF Path!ReleaseReturn
  <2>2. ASSUME NEW k \in Path!Kinds,
               Path!StopDriver(k) \/ Path!StopPost(k) \/ Path!StopFlag(k) \/ Path!StopReturn(k)
        PROVE  ArriveInv'
    BY <2>2, StopDriverArrives, StopPostArrives, StopFlagArrives, StopReturnArrives
  <2>. QED
    BY <1>3, <2>1, <2>2 DEF Path!Releases
<1>4. CASE Path!HeartbeatLoop
  BY <1>4, HeartbeatLoopArrives
<1>5. ASSUME NEW k \in Path!Kinds, Path!Works(k) PROVE ArriveInv'
  BY <1>5, BeginArrives, TestStateArrives, RejectArrives, DispatchArrives, HeartbeatArrives,
     QuitArrives DEF Path!Works
<1>. QED
  BY <1>1, <1>2, <1>3, <1>4, <1>5 DEF Path!Next

(* What is known of every device says what the client may rely on. *)
LEMMA KnownCommandsArrive == ArriveInv => Path!CommandsArrive
<1> SUFFICES ASSUME ArriveInv PROVE Path!CommandsArrive
  OBVIOUS
<1>1. Path!TypeOK
  <2>1. client \in {"calls", "releases", "released"} /\ beats \in 0..MaxBeats
    BY DEF ArriveInv, Counted
  <2>2. ASSUME NEW k \in Path!Kinds
        PROVE  /\ dev[k].m_devState \in {"ONLINE", "OFFLINE", "ERROR"} /\ dev[k].open \in BOOLEAN
               /\ \A i \in DOMAIN asked[k] : asked[k][i].call \in Path!Calls
               /\ k # Path!Types.SOUND => \A i \in DOMAIN wire[k] : Path!IsFrame(wire[k][i])
    <3>1. /\ dev[k] \in DeviceStates /\ dev[k].m_devState \in States
          /\ asked[k] \in Seq(Asked) /\ wire[k] \in Seq(Frames(k))
      BY WhatIsKnown
    <3>2. dev[k].m_devState \in {"ONLINE", "OFFLINE", "ERROR"} /\ dev[k].open \in BOOLEAN
      BY <3>1 DEF DeviceStates, States
    <3>3. \A i \in DOMAIN asked[k] : asked[k][i].call \in Path!Calls
      <4>1. \A i \in DOMAIN asked[k] : asked[k][i] \in Asked
        BY <3>1
      <4>. QED
        BY <4>1 DEF Asked
    <3>4. ASSUME k # Path!Types.SOUND, NEW i \in DOMAIN wire[k] PROVE Path!IsFrame(wire[k][i])
      <4>1. wire[k][i] \in PelcoFrames
        BY <3>1, <3>4 DEF Frames
      <4>. QED
        BY <4>1 DEF PelcoFrames
    <3>. QED
      BY <3>2, <3>3, <3>4
  <2>3. m_cseq \in 0..(MaxCalls + MaxBeats)
    <3> DEFINE x1 == Len(asked[1])
               x2 == Len(asked[2])
               x3 == Len(asked[3])
               y == Todo(m_eq[2])
    <3>1. /\ m_cseq \in Nat /\ beats \in Nat /\ MaxCalls \in Nat /\ MaxBeats \in Nat
          /\ x1 \in Nat /\ x2 \in Nat /\ x3 \in Nat /\ y \in Nat /\ Path!Total = x1 + x2 + x3
      BY NumbersKnown
    <3>2. m_cseq + y <= x2 + beats /\ beats \in 0..MaxBeats /\ x1 + x2 + x3 <= MaxCalls
      BY <3>1, KindNumbers DEF ArriveInv, Counted
    <3> HIDE DEF x1, x2, x3, y
    <3>. QED
      BY <3>1, <3>2
  <2>. QED
    BY <2>1, <2>2, <2>3 DEF Path!TypeOK
<1>2. Path!NumbersRise
  BY DEF Path!NumbersRise, ArriveInv, Rising
<1>3. ASSUME NEW k \in Path!Kinds
      PROVE  \E of \in [Path!Heard(k) -> Path!Sent(k)] :
               /\ Path!InOrder(of, Path!Heard(k), Path!Sent(k))
               /\ \A i \in Path!Heard(k) : Path!Understood(k, wire[k][i]) = Path!Meant(asked[k][of[i]].call)
  <2>1. Fits(k, wire[k], asked[k])
    BY DEF ArriveInv, Known
  <2>2. HeardIn(k, wire[k]) = Path!Heard(k) /\ SentIn(asked[k]) = Path!Sent(k)
    BY DEF HeardIn, SentIn, Path!Heard, Path!Sent
  <2>. QED
    BY <2>1, <2>2 DEF Fits
<1>. QED
  BY <1>1, <1>2, <1>3 DEF Path!CommandsArrive

(* What the client may rely on when it releases. *)
LEMMA KnownCutsOff == ArriveInv => Path!StopCutsOff
<1> SUFFICES ASSUME ArriveInv, NEW k \in Path!Kinds
             PROVE  /\ dev[k].late <= 1
                    /\ \A i \in Path!Waiting(k), j \in DOMAIN asked[k] : i < j => j \in Path!Waiting(k)
                    /\ \E of \in [Path!Left(k) -> Path!Waiting(k)] :
                         /\ Path!InOrder(of, Path!Left(k), Path!Waiting(k))
                         /\ \A i \in Path!Left(k) :
                              m_eq[k][i].packet = Path!Packet(asked[k][of[i]].call)
  BY DEF Path!StopCutsOff
<1>1. /\ Known(k, wire[k], dev[k], asked[k], m_eq[k]) /\ dev[k] \in DeviceStates
      /\ asked[k] \in Seq(Asked) /\ m_eq[k] \in Seq(Events)
  BY WhatIsKnown
<1>2. dev[k].late <= 1
  BY <1>1 DEF DeviceStates
<1>3. Path!Waiting(k) = Waiting(asked[k]) /\ Waiting(asked[k]) \subseteq DOMAIN asked[k]
  BY DEF Path!Waiting, Waiting
<1>4. ASSUME NEW i \in Path!Waiting(k), NEW j \in DOMAIN asked[k], i < j PROVE j \in Path!Waiting(k)
  <2>1. j \notin Waiting(asked[k]) => j < i
    BY <1>1, <1>3 DEF Known
  <2>2. i \in Nat /\ j \in Nat
    BY <1>1, <1>3
  <2>. QED
    BY <1>3, <1>4, <2>1, <2>2
<1>5. Path!Left(k) = Places(m_eq[k], Packets)
  <2>1. ASSUME NEW i \in DOMAIN m_eq[k]
        PROVE  m_eq[k][i].event = "PacketArrival" <=> m_eq[k][i] \in Packets
    <3>1. m_eq[k][i] \in Events
      BY <1>1
    <3>. QED
      BY <3>1 DEF Events, Tasks, Packets
  <2>. QED
    BY <2>1 DEF Path!Left, Places
<1>6. Waits(m_eq[k], asked[k])
  BY <1>1 DEF Known
<1>. QED
  BY <1>2, <1>3, <1>4, <1>5, <1>6 DEF Waits

LEMMA ArriveInvariance == ClientSpec => [](view = "commands" => ArriveInv)
<1> DEFINE J == view = "commands" => ArriveInv
<1>1. ClientInit => J
  BY InitiallyArrives DEF ClientInit
<1>2. J /\ [ClientNext]_clientVars => J'
  <2> SUFFICES ASSUME J, [ClientNext]_clientVars PROVE J'
    OBVIOUS
  <2>1. CASE UseSdk
    BY <2>1 DEF UseSdk
  <2>2. CASE UseCommands
    BY <2>2, NextArrives DEF UseCommands
  <2>3. CASE Gone \/ UNCHANGED clientVars
    <3>1. UNCHANGED <<view, client, asked, m_eq, dev, wire, m_cseq, beats>>
      BY <2>3 DEF Gone, clientVars, commandVars
    <3>2. ArriveInv => ArriveInv'
      BY <3>1 DEF ArriveInv, OfKinds, Counted, Path!Total
    <3>. QED
      BY <3>1, <3>2
  <2>. QED
    BY <2>1, <2>2, <2>3 DEF ClientNext
<1>. QED
  BY <1>1, <1>2, PTL DEF ClientSpec

(* A device understands the calls it was sent, each once and in their order,
   and the numbers of its commands rise: whatever the client calls, within the
   ranges that are documented, and whichever connection fails on the way. *)
THEOREM CommandsReachTheDevice == ClientSpec => []CommandsArrive
<1>1. (view = "commands" => ArriveInv) => CommandsArrive
  BY KnownCommandsArrive DEF CommandsArrive
<1>. QED
  BY <1>1, ArriveInvariance, PTL

(* However many calls are queued, and wherever a device's worker is when
   ECCS_Release stops it: it takes at most one event after quit() has set
   TS_QUIT, and what it leaves are the last calls, none lost from between. *)
THEOREM ReleaseCutsOff == ClientSpec => []StopCutsOff
<1>1. (view = "commands" => ArriveInv) => StopCutsOff
  BY KnownCutsOff DEF StopCutsOff
<1>. QED
  BY <1>1, ArriveInvariance, PTL
=============================================================================
