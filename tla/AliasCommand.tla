---------------------------- MODULE AliasCommand -----------------------------
(***************************************************************************)
(* The alias command (internal/aliascli/cli.go) against a mesh whose       *)
(* members learn of a write one by one: a write to the entry node, the     *)
(* rounds that count how many members show it, and the import of an        *)
(* exported table.  A member keeps the newest version it has heard of      *)
(* (the table's own rules are AliasTable's); another operator may write at *)
(* any member meanwhile; members stop answering and come back.  A revert   *)
(* writes a live entry, as "set" does.                                     *)
(***************************************************************************)
EXTENDS Naturals, Sequences, FiniteSets

CONSTANTS
    AliasMember,  \* the members
    EntryMember,  \* the one the command talks to
    MaxWrites,    \* bound: writes of the alias
    MaxRounds,    \* rounds before the command's timeout
    Exported      \* the import's names -> "live" or "deleted"

VARIABLES
    shows,    \* member -> the write it holds
    writes,   \* the writes of the alias so far, in the order of their time: [ver, kind]
    answering,\* the members that answer requests
    listed,   \* the members the entry node's cluster view lists as alive
    command,  \* [kind, phase, ver, addrs, toAsk, have, rounds]
    held,     \* members that held the command's version at some time since it was written
    imported, \* [left, failed, stored]: an import's progress and what the node stored
    exit      \* "running", or [code, have, of]

aliasCmdVars == <<shows, writes, answering, listed, command, held, imported, exit>>

Unfinished == [code |-> 9, have |-> 0, of |-> 0]

Names == DOMAIN Exported

\* The table's rule: the higher version, between equals the later write.
Newer(a, b) == writes[a].ver > writes[b].ver \/ (writes[a].ver = writes[b].ver /\ a > b)

\* A member's write is one version past what it holds; only a live alias is deleted.
WriteAt(m, kind) ==
    /\ Len(writes) < MaxWrites
    /\ kind = "deleted" => writes[shows[m]].kind = "set"
    /\ writes' = Append(writes, [ver |-> writes[shows[m]].ver + 1, kind |-> kind])
    /\ shows' = [shows EXCEPT ![m] = Len(writes) + 1]

AliasCmdInit ==
    /\ shows = [m \in AliasMember |-> 1] /\ writes = <<[ver |-> 1, kind |-> "set"]>>
    /\ answering = AliasMember /\ listed = AliasMember
    /\ command \in [kind : {"set", "rm", "import"}, phase : {"start"}, ver : {0},
                    addrs : {{}}, toAsk : {{}}, have : {0}, rounds : {0}]
    /\ held = {}
    /\ imported = [left |-> {n \in Names : Exported[n] = "live"}, failed |-> {}, stored |-> {}]
    /\ exit = Unfinished

------------------------------------------------------------------------------
(* The mesh. *)

\* History: who holds the command's entry.
Holding(s) == {m \in AliasMember : s[m] = command.ver /\ command.ver # 0}

\* A member hears of a newer version.
Hears(m, from) ==
    /\ Newer(shows[from], shows[m])
    /\ shows' = [shows EXCEPT ![m] = shows[from]]
    /\ held' = held \cup Holding(shows')
    /\ UNCHANGED <<writes, answering, listed, command, imported, exit>>

\* Another operator writes at a member.
OtherWrite(m, kind) ==
    /\ command.kind # "import"
    /\ WriteAt(m, kind)
    /\ UNCHANGED <<answering, listed, command, held, imported, exit>>

\* A member stops answering, or answers again; the entry's view follows.
Unreachable(m) ==
    /\ m # EntryMember /\ m \in answering
    /\ answering' = answering \ {m}
    /\ UNCHANGED <<shows, writes, listed, command, held, imported, exit>>

ViewFollows ==
    /\ listed # answering
    /\ listed' = answering
    /\ UNCHANGED <<shows, writes, answering, command, held, imported, exit>>

------------------------------------------------------------------------------
(* The command. *)

\* call + write: the node stores the entry and answers with its version.  The
\* node refuses, or does not answer, and nothing is stored; or the answer is lost.
WriteStored(answer) ==
    /\ command.kind \in {"set", "rm"} /\ command.phase = "start"
    /\ WriteAt(EntryMember, IF command.kind = "set" THEN "set" ELSE "deleted")
    /\ held' = {EntryMember}
    /\ command' = [command EXCEPT !.ver = Len(writes'), !.phase = IF answer THEN "list" ELSE "done"]
    /\ exit' = IF answer THEN exit ELSE [code |-> 1, have |-> 0, of |-> 0]
    /\ UNCHANGED <<answering, listed, imported>>

WriteFails ==
    /\ command.kind \in {"set", "rm"} /\ command.phase = "start"
    /\ command' = [command EXCEPT !.phase = "done"]
    /\ exit' = [code |-> 1, have |-> 0, of |-> 0]
    /\ UNCHANGED <<shows, writes, answering, listed, held, imported>>

\* converge: the members to ask, from the entry node's cluster view.
AliveMembers ==
    /\ command.phase = "list"
    /\ command' = [command EXCEPT !.phase = "round", !.addrs = listed, !.toAsk = listed, !.have = 0]
    /\ UNCHANGED <<shows, writes, answering, listed, held, imported, exit>>

\* The cluster view cannot be read, the command was told not to wait, or it is
\* interrupted between rounds: convergence unknown, and the write stands.
ViewUnread ==
    /\ command.phase = "list"
    /\ command' = [command EXCEPT !.phase = "done"]
    /\ exit' = [code |-> 0, have |-> 0, of |-> 0]
    /\ UNCHANGED <<shows, writes, answering, listed, held, imported>>

\* What a member lists: the alias as of the version it holds, if that is live.
ListsAlias(m) == writes[shows[m]].kind = "set"

\* memberHas: the written entry itself, or no alias of the name after a delete.
MemberHasName(m) ==
    IF writes[command.ver].kind = "set" THEN ListsAlias(m) ELSE ~ListsAlias(m)

MemberHas(m) ==
    IF writes[command.ver].kind = "set" THEN ListsAlias(m) /\ shows[m] = command.ver ELSE ~ListsAlias(m)

\* round: every member is asked in parallel; one that does not answer in time counts as no.
AskMember(m, answers) ==
    /\ command.phase = "round" /\ m \in command.toAsk
    /\ answers => m \in answering
    /\ command' = [command EXCEPT !.toAsk = @ \ {m},
                                  !.have = IF answers /\ MemberHas(m) THEN @ + 1 ELSE @]
    /\ UNCHANGED <<shows, writes, answering, listed, held, imported, exit>>

\* All, or the timeout: print have/of.  Else another round.
RoundEnds ==
    /\ command.phase = "round" /\ command.toAsk = {}
    /\ LET of == Cardinality(command.addrs)
       IN  IF command.have = of \/ command.rounds + 1 >= MaxRounds
           THEN /\ exit' = [code |-> 0, have |-> command.have, of |-> of]
                /\ command' = [command EXCEPT !.phase = "done"]
           ELSE /\ command' = [command EXCEPT !.phase = "list", !.rounds = @ + 1]
                /\ UNCHANGED exit
    /\ UNCHANGED <<shows, writes, answering, listed, held, imported>>

\* importTable: the live names one by one, forced; tombstones are skipped.
ImportName(n, stored, answer) ==
    /\ command.kind = "import" /\ command.phase = "start"
    /\ n \in imported.left
    /\ answer => stored
    /\ imported' = [imported EXCEPT !.left = @ \ {n},
                                    !.failed = IF answer THEN @ ELSE @ \cup {n},
                                    !.stored = IF stored THEN @ \cup {n} ELSE @]
    /\ UNCHANGED <<shows, writes, answering, listed, command, held, exit>>

ImportEnds ==
    /\ command.kind = "import" /\ command.phase = "start" /\ imported.left = {}
    /\ command' = [command EXCEPT !.phase = "done"]
    /\ exit' = [code |-> IF imported.failed = {} THEN 0 ELSE 1,
                have |-> Cardinality({n \in Names : Exported[n] = "live"} \ imported.failed),
                of |-> Cardinality({n \in Names : Exported[n] = "live"})]
    /\ UNCHANGED <<shows, writes, answering, listed, held, imported>>

AliasCmdNext ==
    \/ \E m, from \in AliasMember : Hears(m, from)
    \/ \E m \in AliasMember, kind \in {"set", "deleted"} : OtherWrite(m, kind)
    \/ \E m \in AliasMember : Unreachable(m)
    \/ ViewFollows
    \/ \E answer \in BOOLEAN : WriteStored(answer)
    \/ WriteFails \/ AliveMembers \/ ViewUnread
    \/ \E m \in AliasMember, answers \in BOOLEAN : AskMember(m, answers)
    \/ RoundEnds
    \/ \E n \in Names, stored, answer \in BOOLEAN : ImportName(n, stored, answer)
    \/ ImportEnds

AliasCmdSpec == AliasCmdInit /\ [][AliasCmdNext]_aliasCmdVars

------------------------------------------------------------------------------
(* Properties. *)

AliasCmdTypeOK ==
    /\ shows \in [AliasMember -> 1..Len(writes)] /\ answering \subseteq AliasMember
    /\ command.rounds \in 0..MaxRounds /\ command.have \in 0..Cardinality(AliasMember)

\* A write that exits 0 was stored (write): the entry node holds it or
\* a newer one.
ExitTrue ==
    command.kind # "import" /\ exit.code = 0 =>
        /\ command.ver # 0
        /\ shows[EntryMember] = command.ver \/ Newer(shows[EntryMember], command.ver)

\* A set is never reported on more members than held the very entry at some
\* time since: an older or a newer entry of the name does not count.
NotOverclaimed ==
    command.kind = "set" /\ exit.code = 0 => exit.have <= Cardinality(held)

\* "n/n alive members" after a set means every member asked held the entry.
AllMeansAll ==
    command.kind = "set" /\ exit.code = 0 /\ exit.of > 0 /\ exit.have = exit.of => command.addrs \subseteq held

\* An import that exits 0 stored every live alias, one it counts was stored, and
\* it wrote nothing for a tombstone.
ImportTrue ==
    command.kind = "import" /\ exit # Unfinished =>
        /\ exit.code = 0 => {n \in Names : Exported[n] = "live"} \subseteq imported.stored
        /\ exit.have <= Cardinality(imported.stored)
        /\ \A n \in imported.stored : Exported[n] = "live"

\* What the command prints about a write is true of the mesh.
CommandTrue == AliasCmdTypeOK /\ ExitTrue /\ NotOverclaimed /\ AllMeansAll /\ ImportTrue
==============================================================================
