----------------------------- MODULE AliasTable -----------------------------
(***************************************************************************)
(* The alias table of every node (internal/alias/store.go, merge.go,       *)
(* service.go): a name that stands for a list of models, the target first  *)
(* and its fallbacks behind it.  A write takes the next version of its     *)
(* name, is on disk before it is told to anybody, and reaches the other    *)
(* nodes by broadcasts, which may be lost, repeated and late, and by the   *)
(* exchange of whole tables.  A delete is a tombstone, purged when it is   *)
(* older than TombstoneTTL.                                                *)
(*                                                                         *)
(* table is a node's memory and disk its aliases.json.  net holds every    *)
(* broadcast that was sent: a node may take one at any time, any number of *)
(* times, or never.  checked holds the writes ValidateWrite has let through*)
(* and the store has not made yet (ValidateWrite and Store.Set take the    *)
(* lock one after the other).  A save fails before the rename, or after it *)
(* when the directory cannot be synced: then the file is the new one and   *)
(* the memory is put back.                                                 *)
(***************************************************************************)
EXTENDS Integers, Sequences, FiniteSets
LOCAL INSTANCE SequencesExt

CONSTANTS Node,            \* node names: numbers, because By breaks ties
          Name,            \* the alias names
          Refs,            \* what a write may ask for: target and fallbacks
          Real,            \* the names a model or a pipeline has
          Skew,            \* how far each node's clock is ahead
          MaxAliases, MaxAliasHistory, MaxAliasVer, TombstoneTTL,
          MaxWrites,       \* bound on the writes
          MaxClock,        \* bound on the clock
          MaxAliasCrashes,      \* bound on the crashes
          MaxFailures,     \* bound on the saves that fail
          Faulty,          \* the nodes that crash and whose saves fail
          MaxPurges        \* bound on the hourly purges that find something

VARIABLES table, disk, holding, net, checked, clock, writes, aliasCrashes, failures, purges

aliasVars == <<table, disk, holding, net, checked, clock, writes, aliasCrashes, failures, purges>>

NoEntry == [ver |-> 0]

Empty == [a \in Name |-> NoEntry]

Had(e) == e # NoEntry

Live(e) == Had(e) /\ ~e.deleted

Now(n) == clock + Skew[n]

Version(e) == [refs |-> e.refs, ts |-> e.ts, by |-> e.by]

SameVersion(v, w) == v.ts = w.ts /\ v.by = w.by

\* A tie of version and time that the writer does not break.
WinsNoTieBreak(e, f) == e.ver > f.ver \/ (e.ver = f.ver /\ e.ts > f.ts)

\* The order of two entries of one name: version, then time, then writer.
Wins(e, f) ==
  \/ e.ver > f.ver
  \/ e.ver = f.ver /\ e.ts > f.ts
  \/ e.ver = f.ver /\ e.ts = f.ts /\ e.by > f.by

IsAliasConflict(e, f) == e.ver = f.ver /\ ~SameVersion(e, f)

CapHistory(h) == IF Len(h) > MaxAliasHistory THEN SubSeq(h, 1, MaxAliasHistory) ELSE h

HistoryAfter(prev, rest) ==
  CapHistory((IF Live(prev) THEN <<Version(prev)>> ELSE <<>>) \o rest)

\* A tie's losing write, in front of the winner's history.
WithLoserFirst(h, loser) ==
  IF loser.deleted \/ \E i \in DOMAIN h : SameVersion(h[i], loser)
  THEN h ELSE CapHistory(<<Version(loser)>> \o h)

UnionHistory(h, k) ==
  LET both   == h \o k
      firsts == {i \in DOMAIN both : \A j \in 1..(i - 1) : ~SameVersion(both[i], both[j])}
      newer(v, w) == v.ts > w.ts \/ (v.ts = w.ts /\ v.by > w.by)
  IN CapHistory(SetToSortSeq({both[i] : i \in firsts}, newer))

\* An entry from another member that this build takes: a live one has a
\* target, and the version leaves room for the counter.
AcceptRemote(e) == (e.refs # <<>> \/ e.deleted) /\ e.ver <= MaxAliasVer

\* What mergeLocked leaves in the table for a remote entry.
Merged(local, remote) ==
  LET taken == [remote EXCEPT !.hist = CapHistory(@)]
      base  == IF taken.hist = <<>> THEN HistoryAfter(local, local.hist) ELSE taken.hist
      tie   == IsAliasConflict(remote, local)
  IN CASE ~AcceptRemote(remote) -> local
       [] AcceptRemote(remote) /\ ~Had(local) -> taken
       [] AcceptRemote(remote) /\ Had(local) /\ Wins(remote, local) ->
            [taken EXCEPT !.hist = IF tie THEN WithLoserFirst(base, local) ELSE base]
       [] AcceptRemote(remote) /\ Had(local) /\ Wins(local, remote) ->
            [local EXCEPT !.hist = IF tie THEN WithLoserFirst(@, remote) ELSE @]
       [] OTHER -> [local EXCEPT !.hist = UnionHistory(@, remote.hist)]

LiveNames(n) == {a \in Name : Live(table[n][a])}

-----------------------------------------------------------------------------
AliasInit ==
  /\ table = [n \in Node |-> Empty]
  /\ disk = [n \in Node |-> Empty]
  /\ holding = [n \in Node |-> TRUE]
  /\ net = {} /\ checked = {}
  /\ clock = 0 /\ writes = 0 /\ aliasCrashes = 0 /\ failures = 0 /\ purges = 0

\* A failed save leaves the new table in memory.
\* persistLocked for the table t: what is in memory and on disk afterwards.
\* The memory is put back when the save fails.
Persist(n, t) ==
  \/ /\ table' = [table EXCEPT ![n] = t]
     /\ disk' = [disk EXCEPT ![n] = t]
     /\ UNCHANGED failures
  \/ /\ n \in Faulty /\ failures < MaxFailures
     /\ failures' = failures + 1
     /\ disk' \in {disk, [disk EXCEPT ![n] = t]}
     /\ UNCHANGED table

\* Told to the other nodes, without its history: the names whose current
\* version a merge or a write that was saved has changed.
Publish ==
  net' = net \cup
    UNION {{[from |-> n, name |-> a, entry |-> [table'[n][a] EXCEPT !.hist = <<>>]] :
              a \in {b \in Name : /\ Had(table'[n][b])
                                  /\ Had(table[n][b]) => table'[n][b].ver # table[n][b].ver
                                                         \/ ~SameVersion(table'[n][b], table[n][b])}} :
           n \in Node}

NextVersion(n, prev, refs, hist) ==
  [refs |-> refs, ver |-> prev.ver + 1, ts |-> Now(n), by |-> n, deleted |-> refs = <<>>, hist |-> hist]

\* A write past the last version.
WriteAlias(n, a, refs, hist) ==
  /\ holding[n] /\ table[n][a].ver < MaxAliasVer
  /\ Persist(n, [table[n] EXCEPT ![a] = NextVersion(n, table[n][a], refs, hist)])
  /\ Publish
  /\ UNCHANGED <<holding, clock, aliasCrashes, purges>>

\* ValidateWrite: a name that is real, a target that is an alias, a reference
\* given twice, or one more alias than MaxAliases is refused.  The references
\* exist, or the write is forced.
ValidateWrite(n, a, refs) ==
  /\ holding[n] /\ writes < MaxWrites
  /\ a \notin Real
  /\ \A i \in DOMAIN refs : refs[i] \in Name => ~Live(table[n][refs[i]])
  /\ \A i, j \in DOMAIN refs : i # j => refs[i] # refs[j]
  /\ Live(table[n][a]) \/ Cardinality(LiveNames(n)) < MaxAliases
  /\ checked' = checked \cup {[node |-> n, name |-> a, refs |-> refs]}
  /\ writes' = writes + 1
  /\ UNCHANGED <<table, disk, holding, net, clock, aliasCrashes, failures, purges>>

SetAlias(w) ==
  LET prev == table[w.node][w.name]
  IN /\ checked' = checked \ {w}
     /\ Live(prev) \/ Cardinality(LiveNames(w.node)) < MaxAliases
     /\ WriteAlias(w.node, w.name, w.refs, HistoryAfter(prev, IF Had(prev) THEN prev.hist ELSE <<>>))
     /\ UNCHANGED writes

\* The store refuses what was let through: the table filled meanwhile, or the
\* version counter is at its end.
SetRefused(w) ==
  LET prev == table[w.node][w.name]
  IN /\ \/ ~Live(prev) /\ Cardinality(LiveNames(w.node)) >= MaxAliases
        \/ prev.ver >= MaxAliasVer
     /\ checked' = checked \ {w}
     /\ UNCHANGED <<table, disk, holding, net, clock, writes, aliasCrashes, failures, purges>>

DeleteAlias(n, a) ==
  /\ writes < MaxWrites /\ Live(table[n][a])
  /\ WriteAlias(n, a, <<>>, HistoryAfter(table[n][a], table[n][a].hist))
  /\ writes' = writes + 1
  /\ UNCHANGED checked

\* history[0] becomes current, and what it replaces history[0].
Revert(n, a) ==
  LET prev == table[n][a]
  IN /\ writes < MaxWrites /\ Had(prev) /\ prev.hist # <<>>
     /\ WriteAlias(n, a, Head(prev.hist).refs, HistoryAfter(prev, Tail(prev.hist)))
     /\ writes' = writes + 1
     /\ UNCHANGED checked

Received(n, t) ==
  /\ t # table[n]
  /\ Persist(n, t)
  /\ Publish
  /\ UNCHANGED <<holding, checked, clock, writes, aliasCrashes, purges>>

\* A broadcast arrives: NotifyMsg.
NotifyMsg(n, msg) ==
  /\ holding[n] /\ msg.from # n
  /\ Received(n, [table[n] EXCEPT ![msg.name] = Merged(@, msg.entry)])

\* A push/pull: n merges m's whole table under one save.
MergeRemoteState(n, m) ==
  /\ holding[n] /\ holding[m] /\ n # m
  /\ Received(n, [a \in Name |-> IF Had(table[m][a]) THEN Merged(table[n][a], table[m][a]) ELSE table[n][a]])

\* The broadcasts under way are sent no more and arrive nowhere any more.
LoseMsgs ==
  /\ net # {} /\ net' = {}
  /\ UNCHANGED <<table, disk, holding, checked, clock, writes, aliasCrashes, failures, purges>>

Expired(n, e) == Had(e) /\ e.deleted /\ e.ts < Now(n) - TombstoneTTL

Purged(n, t) == [a \in Name |-> IF Expired(n, t[a]) THEN NoEntry ELSE t[a]]

PurgeTombstones(n) ==
  /\ holding[n] /\ purges < MaxPurges
  /\ Purged(n, table[n]) # table[n]
  /\ Persist(n, Purged(n, table[n]))
  /\ purges' = purges + 1
  /\ UNCHANGED <<holding, net, checked, clock, writes, aliasCrashes>>

\* The process dies: requests it had let through die with it.
AliasNodeDies(n) ==
  /\ holding[n] /\ n \in Faulty /\ aliasCrashes < MaxAliasCrashes
  /\ holding' = [holding EXCEPT ![n] = FALSE]
  /\ aliasCrashes' = aliasCrashes + 1
  /\ checked' = {w \in checked : w.node # n}
  /\ UNCHANGED <<table, disk, net, clock, writes, failures, purges>>

\* openWith: the table is the file's, and old tombstones go before anything else.
OpenAliases(n) ==
  /\ ~holding[n]
  /\ holding' = [holding EXCEPT ![n] = TRUE]
  /\ table' = [table EXCEPT ![n] = Purged(n, disk[n])]
  /\ disk' = [disk EXCEPT ![n] = Purged(n, disk[n])]
  /\ UNCHANGED <<net, checked, clock, writes, aliasCrashes, failures, purges>>

AliasClockTicks ==
  /\ clock < MaxClock
  /\ clock' = clock + 1
  /\ UNCHANGED <<table, disk, holding, net, checked, writes, aliasCrashes, failures, purges>>

AliasNext ==
  \/ \E n \in Node, a \in Name, r \in Refs : ValidateWrite(n, a, r)
  \/ \E w \in checked : SetAlias(w) \/ SetRefused(w)
  \/ \E n \in Node, a \in Name : DeleteAlias(n, a) \/ Revert(n, a)
  \/ \E n \in Node, msg \in net : NotifyMsg(n, msg)
  \/ \E n, m \in Node : MergeRemoteState(n, m)
  \/ \E n \in Node : PurgeTombstones(n) \/ AliasNodeDies(n) \/ OpenAliases(n)
  \/ LoseMsgs
  \/ AliasClockTicks

\* memberlist exchanges whole tables with every alive member in turn, and a
\* node that stopped is started again.  Nothing is assumed of broadcasts.
AliasFairness ==
  /\ \A n, m \in Node : WF_aliasVars(MergeRemoteState(n, m))
  /\ \A n \in Node : WF_aliasVars(OpenAliases(n))
  /\ WF_aliasVars(LoseMsgs)

AliasSpec == AliasInit /\ [][AliasNext]_aliasVars /\ AliasFairness
-----------------------------------------------------------------------------
AliasEntry ==
  [refs : Refs \cup {<<>>}, ver : 1..MaxAliasVer, ts : Nat, by : Node, deleted : BOOLEAN,
   hist : Seq([refs : Refs, ts : Nat, by : Node])]

\* Types: versions stay within MaxAliasVer, histories within MaxAliasHistory,
\* and a tombstone is the entry without a target.
AliasTypeOK ==
  /\ \A n \in Node, a \in Name :
       \A e \in {table[n][a], disk[n][a]} \ {NoEntry} :
         e \in AliasEntry /\ (e.deleted <=> e.refs = <<>>) /\ Len(e.hist) <= MaxAliasHistory
  /\ holding \in [Node -> BOOLEAN]
  /\ \A msg \in net : msg.name \in Name /\ msg.entry \in AliasEntry /\ msg.entry.hist = <<>>
  /\ checked \subseteq [node : Node, name : Name, refs : Refs]

\* Current versions only move forward, at every node and for every name:
\* through failed saves, aliasCrashes and restarts from the file, and merges in
\* any order.  Only the purge of an old tombstone takes an entry away.
NeverBack ==
  [][\A n \in Node, a \in Name :
       Had(table[n][a]) =>
         \/ Had(table'[n][a]) /\ ~Wins(table[n][a], table'[n][a])
         \/ Expired(n, table[n][a]) \/ Expired(n, disk[n][a])]_aliasVars

\* Once the writes and the failures end, the nodes come to agree on what
\* every alias means, and stay agreed, whatever broadcasts were lost.
Converges ==
  <>[](\A n, m \in Node, a \in Name :
         /\ Live(table[n][a]) = Live(table[m][a])
         /\ Live(table[n][a]) => SameVersion(table[n][a], table[m][a])
                                 /\ table[n][a].refs = table[m][a].refs)

=============================================================================
