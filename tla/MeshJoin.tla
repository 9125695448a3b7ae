------------------------------ MODULE MeshJoin ------------------------------
(***************************************************************************)
(* How a process gets into the mesh and out of it (mesh/mesh.go,           *)
(* mesh/mlconfig.go, mesh/advertise.go, mesh/delegate.go, MeshKeys of      *)
(* internal/config): the address it waits for, the memberlist it creates   *)
(* with its keys, the rejoin rounds, a name claimed twice, the leave and   *)
(* the shutdown; and an operator who takes the fleet from an open mesh to  *)
(* a secured one, and to a new secret, machine by machine.                 *)
(* memberlist is a library: CanRead is how it treats a message.            *)
(***************************************************************************)
EXTENDS Naturals, FiniteSets

CONSTANTS Proc,        \* processes
          NameOf,      \* the name each is configured with
          Roll,        \* the configurations the operator takes every machine through
          OutOfRange   \* processes whose address is outside the network's range

VARIABLES phase,   \* down, waiting (for an address), running, leaving, fatal
          stageOf, \* which of Roll's configurations each machine has
          young,   \* processes younger than the conflict window
          knows    \* knows[p]: the processes alive in p's table

meshJoinVars == <<phase, stageOf, young, knows>>

Mode(p) == Roll[stageOf[p]]

\* A secured mesh or an open one, never both and never neither; a previous key
\* and a level below full only with a secret.
MeshKeys(m) ==
  /\ m.key # 0 <=> ~m.open
  /\ m.prev # 0 => m.key # 0
  /\ m.enforce # "full" => m.key # 0

\* A mutant: plaintext is refused as soon as messages are sent encrypted.
MemberlistConfigStrict(m) ==
  [keys |-> {m.key, m.prev} \ {0}, primary |-> m.key,
   verifyIncoming |-> m.key # 0 /\ m.enforce # "none", verifyOutgoing |-> m.key # 0 /\ m.enforce # "none"]

\* The keyring, and what must be encrypted, from the level.
MemberlistConfig(m) ==
  [keys |-> {m.key, m.prev} \ {0}, primary |-> m.key,
   verifyIncoming |-> m.key # 0 /\ m.enforce = "full", verifyOutgoing |-> m.key # 0 /\ m.enforce # "none"]

\* memberlist: a message is encrypted with the primary key when outgoing ones
\* must be; a plain one is refused where incoming ones must be encrypted.
CanRead(from, to) ==
  LET f == MemberlistConfig(Mode(from)) t == MemberlistConfig(Mode(to)) IN
  IF f.verifyOutgoing THEN f.primary \in t.keys ELSE ~t.verifyIncoming

Talk(p, q) == CanRead(p, q) /\ CanRead(q, p)

Running == {p \in Proc : phase[p] = "running"}

MeshJoinInit ==
  /\ phase = [p \in Proc |-> "down"] /\ stageOf = [p \in Proc |-> 1] /\ young = {}
  /\ knows = [p \in Proc |-> {}]

\* Only a configuration with usable keys starts.
StartMesh(p) ==
  /\ phase[p] = "down" /\ MeshKeys(Mode(p))
  /\ phase' = [phase EXCEPT ![p] = "waiting"]
  /\ UNCHANGED <<stageOf, young, knows>>

\* The address comes, is in range when the mesh is open, and memberlist and
\* the feeders start.
MeshUp(p) ==
  /\ phase[p] = "waiting" /\ (Mode(p).key = 0 => p \notin OutOfRange)
  /\ phase' = [phase EXCEPT ![p] = "running"]
  /\ young' = young \cup {p}
  /\ UNCHANGED <<stageOf, knows>>

\* No address in time, one out of range, no port, no mDNS: what had started is
\* shut down again, its dispatcher with it.
MeshStartFails(p) ==
  /\ phase[p] = "waiting"
  /\ phase' = [phase EXCEPT ![p] = "down"]
  /\ UNCHANGED <<stageOf, young, knows>>

\* NotifyAlive: in an open mesh only addresses of the network's range.
Admits(p, q) == Mode(p).key # 0 \/ q \notin OutOfRange

\* memberlist: an alive entry of that name at another address stands in the
\* way, whether or not its process still runs.
NameTaken(p, q) == \E x \in knows[p] : x # q /\ NameOf[x] = NameOf[q]

\* One candidate of a rejoin round: not this process, and not alive here.  A
\* join exchanges state both ways.
Rejoin(p, q) ==
  /\ p # q /\ {p, q} \subseteq Running /\ q \notin knows[p] /\ Talk(p, q) /\ NameOf[p] # NameOf[q]
  /\ knows' = [knows EXCEPT ![p] = @ \cup {x \in {q} : Admits(p, x) /\ ~NameTaken(p, x)},
                           ![q] = @ \cup {x \in {p} : Admits(q, x) /\ ~NameTaken(q, x)}]
  /\ knows' # knows
  /\ UNCHANGED <<phase, stageOf, young>>

\* p hears that q's address has p's name: from q, or from a member that still
\* lists q, which may be p's predecessor and dead.
HearsClaim(p, q) ==
  /\ p # q /\ p \in Running /\ NameOf[p] = NameOf[q]
  /\ \/ q \in Running /\ Talk(p, q)
     \/ \E r \in Running : Talk(p, r) /\ q \in knows[r]

\* A mutant: whoever hears of another claimant ends.
NotifyConflictAny(p, q) ==
  /\ HearsClaim(p, q)
  /\ phase' = [phase EXCEPT ![p] = "fatal"]
  /\ UNCHANGED <<stageOf, young, knows>>
\* One name at two addresses: a claimant younger than the window ends, an
\* older one keeps the name; neither knows which of the two is the newer.
NotifyConflict(p, q) ==
  /\ HearsClaim(p, q) /\ p \in young
  /\ phase' = [phase EXCEPT ![p] = "fatal"]
  /\ UNCHANGED <<stageOf, young, knows>>

\* memberlist gives up on a member it cannot reach any more.
MemberFails(p, q) ==
  /\ p \in Running /\ q \in knows[p] /\ (q \notin Running \/ ~Talk(p, q))
  /\ knows' = [knows EXCEPT ![p] = @ \ {q}]
  /\ UNCHANGED <<phase, stageOf, young>>

GrowsOld(p) ==
  /\ p \in young \cap Running /\ young' = young \ {p}
  /\ UNCHANGED <<phase, stageOf, knows>>

\* The notice to the members it knows: they record that it left.
LeaveMesh(p) ==
  /\ phase[p] \in {"running", "fatal"}
  /\ phase' = [phase EXCEPT ![p] = "leaving"]
  /\ knows' = [q \in Proc |-> knows[q] \ {p}]
  /\ UNCHANGED <<stageOf, young>>

\* The rejoin loop, mDNS and memberlist stop and the queued events are
\* delivered; a crash ends everything at once.
ShutdownMesh(p) ==
  /\ phase[p] = "leaving"
  /\ phase' = [phase EXCEPT ![p] = "down"]
  /\ young' = young \ {p} /\ knows' = [knows EXCEPT ![p] = {}]
  /\ UNCHANGED stageOf

CrashMesh(p) ==
  /\ phase[p] # "down"
  /\ phase' = [phase EXCEPT ![p] = "down"]
  /\ young' = young \ {p} /\ knows' = [knows EXCEPT ![p] = {}]
  /\ UNCHANGED stageOf

\* The operator gives a stopped machine the next configuration, once every
\* machine has this one.
NextConfig(p) ==
  /\ phase[p] = "down"
  /\ stageOf[p] + 1 \in DOMAIN Roll /\ \A q \in Proc : stageOf[q] >= stageOf[p]
  /\ stageOf' = [stageOf EXCEPT ![p] = @ + 1]
  /\ UNCHANGED <<phase, young, knows>>

MeshJoinNext ==
  \E p \in Proc :
    \/ StartMesh(p) \/ MeshUp(p) \/ MeshStartFails(p) \/ GrowsOld(p)
    \/ LeaveMesh(p) \/ ShutdownMesh(p) \/ CrashMesh(p) \/ NextConfig(p)
    \/ \E q \in Proc : Rejoin(p, q) \/ NotifyConflict(p, q) \/ MemberFails(p, q)

-----------------------------------------------------------------------------
\* Adding a secret to a running open mesh splits it at no step: any two
\* running processes read each other, wherever the operator is, until the
\* secret itself is being replaced.
RollKeepsMesh ==
  \A p, q \in Running :
    \/ Talk(p, q)
    \/ Mode(p).key # 0 /\ Mode(q).key # 0 /\ Mode(p).key # Mode(q).key

\* A process older than the conflict window never ends for its name's sake,
\* whoever claims the name and whether or not that one still runs.
OldKeepsName == \A p \in Proc : phase[p] = "fatal" => p \in young

\* A member is only ever known under a name of its own, which neither this
\* process nor another entry has, be it a dead predecessor's; and in an open
\* mesh from an address of the network.
KnownIsAdmitted ==
  \A p \in Running : \A q \in knows[p] :
    NameOf[p] # NameOf[q] /\ ~NameTaken(p, q) /\ Admits(p, q)

MeshJoinSafe == RollKeepsMesh /\ OldKeepsName /\ KnownIsAdmitted
=============================================================================
