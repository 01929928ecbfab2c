-------------------------------- MODULE Logger --------------------------------
(***************************************************************************)
(* The log files of src/debug/Logger.cpp: threads call log() (through      *)
(* debug(), info(), warning(), error(), operate(), recoder()) and plain()  *)
(* while a thread may call initLogger().  A message is its head, the time  *)
(* and the level, and its body; stdio keeps what is written to a file in a *)
(* buffer and may bring any first part of it to the disk at any time; any  *)
(* fopen() and fprintf() may fail.  The timer elapsedFromStartLog() reads  *)
(* is left out: nothing else depends on it.                                *)
(***************************************************************************)
EXTENDS Integers, Sequences, FiniteSets, Functions

CONSTANTS
  Threads,
  MaxInits,     \* bound on the calls of initLogger()
  MaxMessages   \* bound on the messages

VARIABLES
  fout,       \* m_fout ("main"), m_fout_operate, m_fout_record; 0 for NULL
  files,      \* the files opened so far: open, buffered text, text on the disk
  lock,       \* holder of m_lock, or "free"
  call,       \* of each thread: where it is in its call, and with what
  sent,       \* messages so far, each [level, done]: done when the call returned their length
  inits,      \* calls of initLogger()
  broken      \* stdio was given a file that was closed, or NULL

vars == <<fout, files, lock, call, sent, inits, broken>>

\* D for D, I; E for E, W (flushed at once); P for plain().
Levels == {"D", "E", "O", "R", "P"}
Urgent == {"E", "O", "P"}
Streams == {"main", "operate", "record"}

Idle == [at |-> "idle"]

Init ==
  /\ fout = [s \in Streams |-> 0]
  /\ files = <<>>
  /\ lock = "free"
  /\ call = [t \in Threads |-> Idle]
  /\ sent = <<>>
  /\ inits = 0
  /\ broken = FALSE

StreamOf(level) ==
  CASE level = "O" -> "operate" [] level = "R" -> "record" [] OTHER -> "main"

Flushed(f) == [f EXCEPT !.disk = @ \o f.buffered, !.buffered = <<>>]

----------------------------------------------------------------------------
(* initLogger(): the open files are closed and new ones opened; without
   sub-logs the pointers of the two others stay as they are. *)

\* The names, numbered.
Listed(names) == CHOOSE q \in Bijection(1..Cardinality(names), names): TRUE

initLogger(t, sub) ==
  /\ ~broken
  /\ call[t].at = "idle" /\ lock = "free" /\ inits < MaxInits
  /\ LET wanted == IF sub THEN Streams ELSE {"main"}
         closing == {fout[s]: s \in Streams} \ {0}
     IN \E opened \in SUBSET wanted:
          /\ LET names == Listed(opened)
                 number(s) == Len(files) + (CHOOSE i \in DOMAIN names: names[i] = s)
             IN /\ files' = [i \in DOMAIN files |->
                               IF i \in closing THEN [Flushed(files[i]) EXCEPT !.open = FALSE]
                                                ELSE files[i]]
                            \o [i \in DOMAIN names |-> [open |-> TRUE, buffered |-> <<>>, disk |-> <<>>]]
                /\ fout' = [s \in Streams |-> IF s \in opened THEN number(s)
                                              ELSE IF s \in wanted THEN 0 ELSE fout[s]]
          /\ broken' = (\E i \in closing: ~files[i].open)
  /\ inits' = inits + 1
  /\ UNCHANGED <<lock, call, sent>>

----------------------------------------------------------------------------
(* log() and plain() *)

\* The file is chosen before m_lock is taken; NULL ends the call.
Choose(t, level) ==
  /\ ~broken
  /\ call[t].at = "idle" /\ Len(sent) < MaxMessages
  /\ fout[StreamOf(level)] # 0
  /\ sent' = Append(sent, [level |-> level, done |-> FALSE])
  /\ call' = [call EXCEPT ![t] = [at |-> "chosen", file |-> fout[StreamOf(level)],
                                  id |-> Len(sent) + 1, level |-> level]]
  /\ UNCHANGED <<fout, files, lock, inits, broken>>

(* Mutant of Lock: m_lock is not taken. *)
LockNot(t) ==
  /\ ~broken
  /\ call[t].at = "chosen"
  /\ call' = [call EXCEPT ![t].at = IF call[t].level = "P" THEN "body" ELSE "head"]
  /\ UNCHANGED <<lock, fout, files, sent, inits, broken>>

Lock(t) ==
  /\ ~broken
  /\ call[t].at = "chosen" /\ lock = "free"
  /\ lock' = t
  /\ call' = [call EXCEPT ![t].at = IF call[t].level = "P" THEN "body" ELSE "head"]
  /\ UNCHANGED <<fout, files, sent, inits, broken>>

\* plain() writes to m_fout as it is now, log() to the file it chose.
FileOf(t) == IF call[t].level = "P" THEN fout["main"] ELSE call[t].file

Usable(i) == i # 0 /\ files[i].open

Return(t) ==
  /\ lock' = IF lock = t THEN "free" ELSE lock
  /\ call' = [call EXCEPT ![t] = Idle]

\* fprintf() of the head.
WriteHead(t) ==
  /\ ~broken
  /\ call[t].at = "head"
  /\ IF Usable(FileOf(t))
     THEN /\ files' = [files EXCEPT ![FileOf(t)].buffered = Append(@, <<"head", call[t].id>>)]
          /\ call' = [call EXCEPT ![t].at = "body"]
          /\ UNCHANGED broken
     ELSE /\ broken' = TRUE
          /\ UNCHANGED <<files, call>>
  /\ UNCHANGED <<fout, lock, sent, inits>>

\* vfprintf() of the body, and fflush() of what must not wait.
WriteBody(t) ==
  /\ ~broken
  /\ call[t].at = "body"
  /\ IF Usable(FileOf(t))
     THEN LET f == files[FileOf(t)]
              g == [f EXCEPT !.buffered = Append(@, <<"body", call[t].id>>)]
          IN /\ files' = [files EXCEPT ![FileOf(t)] =
                            IF call[t].level \in Urgent THEN Flushed(g) ELSE g]
             /\ sent' = [sent EXCEPT ![call[t].id].done = TRUE]
             /\ Return(t)
             /\ UNCHANGED broken
     ELSE /\ broken' = TRUE
          /\ UNCHANGED <<files, sent, lock, call>>
  /\ UNCHANGED <<fout, inits>>

\* Either write fails: the call returns _FPRINTFS_FAILED_.
WriteFails(t) ==
  /\ ~broken
  /\ call[t].at \in {"head", "body"} /\ Usable(FileOf(t))
  /\ Return(t)
  /\ UNCHANGED <<fout, files, sent, inits, broken>>

----------------------------------------------------------------------------
(* The C library writes a buffer, or a part of it. *)

Drain(i) ==
  /\ ~broken /\ files[i].buffered # <<>>
  /\ files' = [files EXCEPT ![i].disk = Append(@, Head(files[i].buffered)),
                            ![i].buffered = Tail(@)]
  /\ UNCHANGED <<fout, lock, call, sent, inits, broken>>

Next ==
  \/ \E t \in Threads:
       \/ \E sub \in BOOLEAN: initLogger(t, sub)
       \/ \E level \in Levels: Choose(t, level)
       \/ Lock(t) \/ WriteHead(t) \/ WriteBody(t) \/ WriteFails(t)
  \/ \E i \in DOMAIN files: Drain(i)

Spec == Init /\ [][Next]_vars

----------------------------------------------------------------------------
Text(f) == f.disk \o f.buffered

(* Type invariant; the thread that holds m_lock is between taking it and its
   return. *)
TypeOK ==
  /\ fout \in [Streams -> 0 .. Len(files)]
  /\ lock \in Threads \cup {"free"}
  /\ \A t \in Threads: call[t].at \in {"idle", "chosen", "head", "body"}
  /\ \A t \in Threads: call[t].at \in {"head", "body"} => lock = t

(* The body of a message follows its own head: no other thread's text is
   between them, in any file. *)
LinesAreWhole ==
  \A i \in DOMAIN files: \A k \in DOMAIN Text(files[i]):
    LET p == Text(files[i])[k]
    IN  p[1] = "body" /\ sent[p[2]].level # "P" => k > 1 /\ Text(files[i])[k - 1] = <<"head", p[2]>>

(* A warning, an error, an operation or a plain message whose call returned
   its length is on the disk, with everything written to its file before
   (Logger.cpp:544): a crash does not take what led to an error. *)
UrgentIsOnDisk ==
  \A i \in DOMAIN files: \A k \in DOMAIN files[i].buffered:
    LET p == files[i].buffered[k]
    IN  ~(p[1] = "body" /\ sent[p[2]].level \in Urgent /\ sent[p[2]].done)

(* What is in the files after a crash can be relied on. *)
LogCanBeTrusted == TypeOK /\ LinesAreWhole /\ UrgentIsOnDisk

=============================================================================
