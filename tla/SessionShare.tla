---------------------------- MODULE SessionShare ----------------------------
(***************************************************************************)
(* kv_share on a node (internal/sessionshare): members that served turns   *)
(* of a session save it and push it to the session's replica host, which   *)
(* imports the replica into its backend before a turn of its own.          *)
(*                                                                         *)
(* A turn's save waits for a moment and is dropped when the next turn      *)
(* starts.  A push asks for the manifest, has the engine save (as a delta  *)
(* against the save the receiver holds, if the engine still knows it), and *)
(* puts.  Puts end half way, the receiver crashes, replicas are evicted,   *)
(* the engine forgets a conversation and its backend is relaunched.        *)
(*                                                                         *)
(* The replica (internal/kvshare).  A save of the engine is a file: its    *)
(* K/V chunks, which a later save may share, and the rest (ids,            *)
(* checkpoints, framing), which it rewrites.  Chunks and the rest carry    *)
(* the number of the save that wrote them, so a file put together from two *)
(* saves shows.  A sender asks for the manifest first and later puts the   *)
(* chunks the manifest lacks; in between another sender may put, and the   *)
(* replica may be evicted or the process end.  A hash is the value it is   *)
(* of: it differs when the value does.                                     *)
(***************************************************************************)
EXTENDS Naturals, Sequences

CONSTANTS Senders,      \* the members that push the session here
          Absent,       \* no replica, no manifest, no chunk hashes, no save id
          MaxFiles,     \* bound on saves
          MaxChunks,    \* bound on the K/V chunks of a file
          MaxTurns,     \* bound on the turns of each sender
          MaxShareFaults     \* bound on what goes wrong

ASSUME AbsentAssumption == Absent \notin Senders /\ Absent \notin Seq(Nat)
ASSUME BoundAssumption == MaxFiles \in Nat

VARIABLES replica,      \* the key's directory: its state.json and its files
          manifest,     \* s.man
          keyLock,      \* who holds the key's lock: a sender, or Absent
          files,        \* every file the senders' engines have saved, by number
          turns, turn, job, push,      \* each sender's turns, waiting save and push
          closing,                     \* each sender's Manager.Close: no, waiting, returned
          receiving, sweep,            \* the receiver runs; it is about to evict the replica
          puts,                        \* puts completed
          import, imported, given, held,
          shareFaults

storeVars == <<replica, manifest, keyLock>>
sendVars == <<turns, turn, job, push, closing>>
importVars == <<import, imported, given, held>>
shareVars == <<storeVars, files, sendVars, receiving, sweep, puts, importVars, shareFaults>>

-----------------------------------------------------------------------------
(* The replica.                                                            *)

Keys == 1..Len(files)

\* Diff: the longest run of leading chunks the manifest has too.
KeepOf(kv, have) ==
  CHOOSE k \in 0..Len(kv) :
    /\ k <= Len(have) /\ \A i \in 1..k : kv[i] = have[i]
    /\ k < Len(kv) /\ k < Len(have) => kv[k + 1] # have[k + 1]

EmptyReplica ==
  [complete |-> FALSE, kv |-> <<>>, rest |-> 0, digest |-> 0, save |-> Absent,
   chunks |-> Absent, trailer |-> FALSE, no |-> 0]

StoreInit == replica = Absent /\ manifest = Absent /\ keyLock = Absent

Complete == replica # Absent /\ replica.complete

\* manifestLocked: the cached one, or one read back from a complete replica.
ReadManifest ==
  IF manifest # Absent THEN manifest
  ELSE IF Complete THEN [kv |-> replica.kv, save |-> replica.save]
  ELSE Absent

\* A failed put removes the replica, and the next push sends everything.
DropReplica == replica' = Absent /\ manifest' = Absent /\ keyLock' = Absent

BeginPutUnmarked(s) ==
  /\ keyLock = Absent /\ keyLock' = s
  /\ manifest' = Absent
  /\ replica' = IF Complete THEN replica ELSE EmptyReplica

\* put, as far as the flag: what another put left incomplete is removed, and
\* from here on the replica is not complete.
BeginPut(s) ==
  /\ keyLock = Absent /\ keyLock' = s
  /\ manifest' = Absent
  /\ replica' = IF Complete THEN [replica EXCEPT !.complete = FALSE]
                ELSE EmptyReplica

\* PutEngineDelta applies only to the base the replica holds; otherwise 409,
\* and the replica stays.
BaseHeld(base) == Complete /\ replica.save = base

BeginDelta(s) ==
  /\ keyLock = Absent /\ keyLock' = s
  /\ manifest' = Absent
  /\ replica' = [replica EXCEPT !.complete = FALSE]

\* The sections are patched in file order: the rest first, then the K/V.
PatchRest(n) == replica' = [replica EXCEPT !.rest = files[n].rest]

PatchKV(n, keep) ==
  replica' = [replica EXCEPT !.kv = SubSeq(@, 1, keep) \o SubSeq(files[n].kv, keep + 1, Len(files[n].kv))]

\* A put keeps no more than its copy has.
KeepFits(keep) == keep <= Len(replica.kv)

\* rebuild.kv: the kept chunks must be the base's, as the engine knows them.
KeptMatch(n, keep) ==
  /\ keep <= Len(replica.kv)
  /\ keep = 0 \/ (replica.chunks # Absent /\ keep <= Len(replica.chunks))
  /\ \A i \in 1..keep : replica.chunks[i] = files[n].kv[i]

\* The new state.json.  A plain put names the file's digest and no chunks yet;
\* an engine delta has its chunk hashes and leaves the trailer to assembly.
CompletePut(n, no) ==
  replica' = [replica EXCEPT !.complete = TRUE, !.digest = n, !.save = n, !.chunks = Absent,
                             !.trailer = FALSE, !.no = no]

CompleteDelta(n, no) ==
  replica' = [replica EXCEPT !.complete = TRUE, !.digest = 0, !.save = n, !.chunks = files[n].kv,
                             !.trailer = TRUE, !.no = no]

\* finish: the manifest and, after a plain put, the chunk hashes of what is on
\* disk now; the lock is free.
FinishReplica ==
  /\ manifest' = [kv |-> replica.kv, save |-> replica.save]
  /\ replica' = IF replica.chunks = Absent THEN [replica EXCEPT !.chunks = replica.kv] ELSE replica
  /\ keyLock' = Absent

\* Materialize: the assembled file must have the sender's digest, or, without
\* one, chunks with the hashes on record.
SealTrailer == replica.chunks # Absent /\ replica.kv = replica.chunks

Assembled == [kv |-> replica.kv, rest |-> replica.rest]

FileOf(n) == [kv |-> files[n].kv, rest |-> files[n].rest]

Materializes ==
  /\ Complete
  /\ IF replica.trailer THEN SealTrailer ELSE Assembled = FileOf(replica.digest)

\* Version names the bytes of a replica.
Version == IF replica.digest # 0 THEN <<"digest", replica.digest>> ELSE <<"save", replica.save>>

\* evict's removal, and Clean's of what a stop left incomplete.
RemoveReplica == keyLock = Absent /\ DropReplica

Clean == replica' = (IF Complete THEN replica ELSE Absent) /\ manifest' = Absent /\ keyLock' = Absent

-----------------------------------------------------------------------------
NoPush == [at |-> "idle"]
NoImport == [at |-> "idle"]
Putting(s) == push[s].at \in {"begun", "rest", "kv"}
Fault == shareFaults < MaxShareFaults /\ shareFaults' = shareFaults + 1

ShareInit ==
  /\ StoreInit /\ files = <<>> /\ puts = 0
  /\ turns = [s \in Senders |-> 0] /\ turn = [s \in Senders |-> FALSE]
  /\ job = [s \in Senders |-> FALSE] /\ push = [s \in Senders |-> NoPush]
  /\ closing = [s \in Senders |-> "no"]
  /\ receiving = TRUE /\ sweep = FALSE
  /\ import = NoImport /\ imported = Absent /\ given = 0 /\ held = 0
  /\ shareFaults = 0

-----------------------------------------------------------------------------
(* The senders' turns.                                                     *)

\* BeforeLocal drops the save that still waits: the turn makes it stale.
TurnStarts(s) ==
  /\ ~turn[s] /\ turns[s] < MaxTurns[s]
  /\ turn' = [turn EXCEPT ![s] = TRUE] /\ turns' = [turns EXCEPT ![s] = @ + 1]
  /\ job' = [job EXCEPT ![s] = FALSE]
  /\ UNCHANGED <<storeVars, files, push, closing, receiving, sweep, puts, importVars, shareFaults>>

\* AfterLocal leaves a job, in place of one that waits, unless the node closes.
AfterLocal(s) ==
  /\ turn[s]
  /\ turn' = [turn EXCEPT ![s] = FALSE]
  /\ job' = [job EXCEPT ![s] = @ \/ closing[s] = "no"]
  /\ UNCHANGED <<storeVars, files, turns, push, closing, receiving, sweep, puts, importVars, shareFaults>>

\* Close ends the workers and waits for a push in progress.
Close(s) ==
  /\ closing[s] = "no" /\ Fault
  /\ closing' = [closing EXCEPT ![s] = "waiting"]
  /\ UNCHANGED <<storeVars, files, turns, turn, job, push, receiving, sweep, puts, importVars>>

CloseReturns(s) ==
  /\ closing[s] = "waiting" /\ push[s] = NoPush
  /\ closing' = [closing EXCEPT ![s] = "returned"]
  /\ UNCHANGED <<storeVars, files, turns, turn, job, push, receiving, sweep, puts, importVars, shareFaults>>

-----------------------------------------------------------------------------
(* A sender's push; its worker runs one at a time.                         *)

\* next and push: the due job is taken; with no member to send to, or one
\* that does not answer, it ends here.
PushAsk(s) ==
  /\ job[s] /\ push[s] = NoPush /\ closing[s] = "no" /\ keyLock = Absent
  /\ job' = [job EXCEPT ![s] = FALSE]
  /\ push' = [push EXCEPT ![s] = IF receiving THEN [at |-> "asked", man |-> ReadManifest] ELSE NoPush]
  /\ manifest' = IF receiving THEN ReadManifest ELSE manifest
  /\ UNCHANGED <<replica, keyLock, files, turns, turn, closing, receiving, sweep, puts, importVars, shareFaults>>

PushNowhere(s) ==
  /\ job[s] /\ push[s] = NoPush /\ closing[s] = "no" /\ Fault
  /\ job' = [job EXCEPT ![s] = FALSE]
  /\ UNCHANGED <<storeVars, files, turns, turn, push, closing, receiving, sweep, puts, importVars>>

\* SaveSession: the engine's conversation continues one saved before, or
\* starts over (an edit, a compaction).  It may write a delta when the
\* receiver holds a save it made itself; else the whole file is diffed.
Save(s, from, delta) ==
  LET n    == Len(files) + 1
      kv   == IF from = 0 THEN <<n>> ELSE Append(files[from].kv, n)
      man  == push[s].man
      base == IF delta THEN man.save ELSE Absent
      keep == IF man = Absent THEN 0 ELSE KeepOf(kv, IF delta THEN files[base].kv ELSE man.kv)
  IN  /\ push[s].at = "asked" /\ n <= MaxFiles /\ Len(kv) <= MaxChunks
      /\ delta => man # Absent /\ files[man.save].by = s
      /\ files' = Append(files, [kv |-> kv, rest |-> n, by |-> s])
      /\ push' = [push EXCEPT ![s] = [at |-> "saved", n |-> n, base |-> base, keep |-> keep]]
      /\ UNCHANGED <<storeVars, turns, turn, job, closing, receiving, sweep, puts, importVars, shareFaults>>

\* The engine no longer has the session, or cannot save it.
SaveFails(s) ==
  /\ push[s].at = "asked" /\ push' = [push EXCEPT ![s] = NoPush]
  /\ UNCHANGED <<storeVars, files, turns, turn, job, closing, receiving, sweep, puts, importVars, shareFaults>>

IsDelta(s) == push[s].base # Absent

\* The put arrives: refused by a receiver that is down or, for a delta, that
\* holds another base.
PutBegins(s) ==
  /\ push[s].at = "saved" /\ receiving
  /\ IF IsDelta(s) THEN BaseHeld(push[s].base) /\ BeginDelta(s) ELSE BeginPut(s)
  /\ push' = [push EXCEPT ![s].at = "begun"]
  /\ UNCHANGED <<files, turns, turn, job, closing, receiving, sweep, puts, importVars, shareFaults>>

PutRefused(s) ==
  /\ push[s].at = "saved" /\ (~receiving \/ (IsDelta(s) /\ keyLock = Absent /\ ~BaseHeld(push[s].base)))
  /\ push' = [push EXCEPT ![s] = NoPush]
  /\ UNCHANGED <<storeVars, files, turns, turn, job, closing, receiving, sweep, puts, importVars, shareFaults>>

PutRest(s) ==
  /\ push[s].at = "begun" /\ PatchRest(push[s].n)
  /\ push' = [push EXCEPT ![s].at = "rest"]
  /\ UNCHANGED <<manifest, keyLock, files, turns, turn, job, closing, receiving, sweep, puts, importVars, shareFaults>>

\* A section that keeps more than there is, or other chunks than the engine
\* meant, ends the put.
MayKeep(s) ==
  IF IsDelta(s) THEN KeptMatch(push[s].n, push[s].keep) ELSE KeepFits(push[s].keep)

PutKV(s) ==
  /\ push[s].at = "rest"
  /\ IF MayKeep(s)
     THEN /\ PatchKV(push[s].n, push[s].keep) /\ UNCHANGED <<manifest, keyLock>>
          /\ push' = [push EXCEPT ![s].at = "kv"]
     ELSE DropReplica /\ push' = [push EXCEPT ![s] = NoPush]
  /\ UNCHANGED <<files, turns, turn, job, closing, receiving, sweep, puts, importVars, shareFaults>>

\* The connection breaks, the sender's context ends, a write fails.
PutFails(s) ==
  /\ Putting(s) /\ (IF closing[s] # "no" THEN UNCHANGED shareFaults ELSE Fault)
  /\ DropReplica /\ push' = [push EXCEPT ![s] = NoPush]
  /\ UNCHANGED <<files, turns, turn, job, closing, receiving, sweep, puts, importVars>>

\* The sender has its answer; finish goes on with the lock.
PutCompletes(s) ==
  /\ push[s].at = "kv" /\ puts' = puts + 1
  /\ IF IsDelta(s) THEN CompleteDelta(push[s].n, puts + 1) ELSE CompletePut(push[s].n, puts + 1)
  /\ push' = [push EXCEPT ![s] = NoPush]
  /\ UNCHANGED <<manifest, keyLock, files, turns, turn, job, closing, receiving, sweep, importVars, shareFaults>>

FinishPut ==
  /\ keyLock # Absent /\ ~Putting(keyLock) /\ receiving
  /\ FinishReplica
  /\ UNCHANGED <<files, sendVars, receiving, sweep, puts, importVars, shareFaults>>

-----------------------------------------------------------------------------
(* The receiver.                                                           *)

\* A sweep finds the store full and this replica the oldest, and removes it
\* when it gets the lock, whatever was put meanwhile.
EvictScan ==
  /\ receiving /\ ~sweep /\ keyLock = Absent /\ replica # Absent /\ Fault
  /\ sweep' = TRUE
  /\ UNCHANGED <<storeVars, files, sendVars, receiving, puts, importVars>>

EvictRemove ==
  /\ sweep /\ sweep' = FALSE /\ RemoveReplica
  /\ UNCHANGED <<files, sendVars, receiving, puts, importVars, shareFaults>>

Crash ==
  /\ receiving /\ receiving' = FALSE /\ Fault
  /\ sweep' = FALSE /\ keyLock' = Absent /\ manifest' = Absent
  /\ push' = [s \in Senders |-> IF Putting(s) THEN NoPush ELSE push[s]]
  /\ import' = NoImport /\ imported' = Absent /\ given' = 0 /\ held' = 0
  /\ UNCHANGED <<replica, files, turns, turn, job, closing, puts>>

\* SetModels opens the store, which cleans it, before the node serves.
Restart ==
  /\ ~receiving /\ receiving' = TRUE /\ Clean
  /\ UNCHANGED <<files, sendVars, sweep, puts, importVars, shareFaults>>

\* BeforeLocal: a replica already imported into this launch of the backend is
\* imported again only if the engine says that it no longer holds it.
ImportInfo(says) ==
  /\ receiving /\ import = NoImport /\ keyLock = Absent /\ Complete
  /\ ~(imported # Absent /\ imported.version = Version /\ ~(says /\ held = 0))
  /\ import' = [at |-> "info", version |-> Version, no |-> replica.no, same |-> TRUE]
  /\ UNCHANGED <<storeVars, files, sendVars, receiving, sweep, puts, imported, given, held, shareFaults>>

ImportAssemble ==
  /\ import.at = "info" /\ keyLock = Absent
  /\ import' = IF Materializes
               THEN [at |-> "file", version |-> import.version, no |-> import.no, same |-> import.same,
                     file |-> Assembled, fileNo |-> replica.no]
               ELSE NoImport
  /\ UNCHANGED <<storeVars, files, sendVars, receiving, sweep, puts, imported, given, held, shareFaults>>

RecordAnyLaunch == imported' = [version |-> import.version, no |-> import.no]

\* The record is kept per launch: a relaunch meanwhile leaves it unused.
RecordImport ==
  imported' = IF import.same THEN [version |-> import.version, no |-> import.no] ELSE imported

ImportDone(ok) ==
  /\ import.at = "file" /\ import' = NoImport
  /\ IF ok
     THEN /\ held' = import.fileNo
          /\ given' = IF import.same THEN import.fileNo ELSE given
          /\ RecordImport
     ELSE UNCHANGED <<imported, given, held>>
  /\ UNCHANGED <<storeVars, files, sendVars, receiving, sweep, puts, shareFaults>>

EngineForgets ==
  /\ held # 0 /\ held' = 0 /\ Fault
  /\ UNCHANGED <<storeVars, files, sendVars, receiving, sweep, puts, import, imported, given>>

Relaunch ==
  /\ receiving /\ Fault /\ held' = 0 /\ given' = 0 /\ imported' = Absent
  /\ import' = IF import = NoImport THEN import ELSE [import EXCEPT !.same = FALSE]
  /\ UNCHANGED <<storeVars, files, sendVars, receiving, sweep, puts>>

ShareNext ==
  \/ \E s \in Senders : TurnStarts(s)
  \/ \E s \in Senders : AfterLocal(s)
  \/ \E s \in Senders : Close(s)
  \/ \E s \in Senders : CloseReturns(s)
  \/ \E s \in Senders : PushAsk(s)
  \/ \E s \in Senders : PushNowhere(s)
  \/ \E s \in Senders, from \in 0..MaxFiles, delta \in BOOLEAN : from <= Len(files) /\ Save(s, from, delta)
  \/ \E s \in Senders : SaveFails(s)
  \/ \E s \in Senders : PutBegins(s)
  \/ \E s \in Senders : PutRefused(s)
  \/ \E s \in Senders : PutRest(s)
  \/ \E s \in Senders : PutKV(s)
  \/ \E s \in Senders : PutFails(s)
  \/ \E s \in Senders : PutCompletes(s)
  \/ FinishPut
  \/ EvictScan
  \/ EvictRemove
  \/ Crash
  \/ Restart
  \/ \E says \in BOOLEAN : ImportInfo(says)
  \/ ImportAssemble
  \/ \E ok \in BOOLEAN : ImportDone(ok)
  \/ EngineForgets
  \/ Relaunch

\* Workers, handlers and finish run; a save and a put end at their timeout.
\* A receiver that is down comes back.
ShareFairness ==
  /\ \A s \in Senders :
       /\ WF_shareVars(PushAsk(s)) /\ WF_shareVars(SaveFails(s))
       /\ WF_shareVars(PutBegins(s) \/ PutRefused(s) \/ PutRest(s) \/ PutKV(s) \/ PutCompletes(s))
  /\ WF_shareVars(FinishPut) /\ WF_shareVars(Restart)

ShareSpec == ShareInit /\ [][ShareNext]_shareVars /\ ShareFairness
-----------------------------------------------------------------------------
ShareTypeOK ==
  /\ keyLock \in Senders \cup {Absent}
  /\ \A s \in Senders : push[s].at \in {"idle", "asked", "saved", "begun", "rest", "kv"}
  /\ \A s \in Senders : Putting(s) => keyLock = s /\ receiving
  /\ import.at \in {"idle", "info", "file"}
  /\ {held, given, puts} \subseteq 0..MaxFiles

\* Materialize gives the engine one whole save of one sender, never chunks of
\* one with the rest of another: whatever the manifest a sender planned on,
\* however its put ended and wherever the receiver stopped.
WholeFile ==
  import.at = "file" => \E n \in Keys : import.file = FileOf(n)

\* The record of an import is no promise the backend does not keep: this
\* launch was given that replica or one put after it.
ImportedWasGiven == imported # Absent => given >= imported.no

\* Close: once it has returned no push of this node is under way or starts.
ClosedIsQuiet == \A s \in Senders : closing[s] = "returned" => push[s] = NoPush

\* What senders, the replica host and its backend may rely on.
ShareSafe == WholeFile /\ ImportedWasGiven /\ ClosedIsQuiet

\* A waiting save is sent, fails or is dropped, and its push ends, whoever
\* else holds the key's lock and wherever the receiver stops.
EverySaveSettles ==
  \A s \in Senders :
    (job[s] \/ push[s] # NoPush) ~> (push[s] = NoPush /\ (~job[s] \/ closing[s] # "no"))
=============================================================================
