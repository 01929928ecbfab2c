-------------------------------- MODULE Client --------------------------------
(***************************************************************************)
(* What a client sees of the SDK, in two views: its life from ECCS_Init to *)
(* ECCS_Release (Sdk, which this module extends) and, between these two,   *)
(* the path of its commands to the devices (Commands).  A behaviour shows  *)
(* one of them; the variables of the other stay as they are.               *)
(***************************************************************************)
EXTENDS Sdk

CONSTANTS
  Views,                              \* "life", "commands"
  Fleets, Levels, Speeds,             \* Commands
  Indexes, Volumes,
  Texts, MaxCalls, MaxBeats

(* What a client passes is in the ranges that EchoControlSDK.h documents. *)
ASSUME CommandsAssumption ==
  /\ Levels \subseteq 0..100 /\ Speeds \subseteq 0..64
  /\ Indexes \subseteq 1..255 /\ Volumes \subseteq 0..100
  /\ MaxCalls \in Nat /\ MaxBeats \in Nat

VARIABLES
  view,
  client, asked, m_eq, dev, wire, m_cseq, beats

commandVars == <<client, asked, m_eq, dev, wire, m_cseq, beats>>
clientVars == <<view, vars, commandVars>>

Path == INSTANCE Commands

ClientInit ==
  /\ view \in Views /\ Init
  /\ IF view = "commands" THEN Path!Init
     ELSE /\ client = "calls" /\ m_cseq = 0 /\ beats = 0
          /\ asked = <<>> /\ m_eq = <<>> /\ dev = <<>> /\ wire = <<>>

UseSdk      == view = "life"     /\ Next      /\ UNCHANGED <<view, commandVars>>
UseCommands == view = "commands" /\ Path!Next /\ UNCHANGED <<view, vars>>

\* The client waits in ECCS_Release, for ever if a Stop() hangs, or is gone.
Gone == view = "commands" /\ client # "calls" /\ UNCHANGED clientVars

ClientNext == UseSdk \/ UseCommands \/ Gone

(* ECCS_Release goes on, and so does the worker of every device. *)
ClientSpec ==
  /\ ClientInit /\ [][ClientNext]_clientVars
  /\ WF_clientVars(view = "commands" /\ Path!Releases /\ UNCHANGED <<view, vars>>)
  /\ \A k \in Path!Kinds :
       WF_clientVars(view = "commands" /\ Path!Works(k) /\ UNCHANGED <<view, vars>>)

-----------------------------------------------------------------------------
(* Properties: those of Sdk, and of the path of a command                  *)

(* Whenever the client initialises and releases: a device that runs is one that
   ECCS_Release will reach, no slot leads to a deleted one, and after the last
   of them was deleted the client's callback is not used any more. *)
DevicesAreOwned == OwnedIsAlive /\ SilentAfterRelease

(* Every section that passes the checks has its device, whatever is wrong with
   the others, and a control call reaches a device of its own kind. *)
DevicesAsConfigured == InitIsComplete /\ PacketsReachTheirKind

(* Whatever fails or reconnects on the way, a device understands what its
   client asked for, each call that was not dropped once and in the order of
   the calls. *)
CommandsArrive == view = "commands" => Path!CommandsArrive

(* ECCS_Release cuts a device off: at most one event is taken after quit() has
   set TS_QUIT, and the calls left behind are the last ones, in their order. *)
StopCutsOff == view = "commands" => Path!StopCutsOff

(* ECCS_Release returns, unless it meets a device whose thread has not begun. *)
ReleaseEnds == view = "commands" => Path!ReleaseEnds
=============================================================================
