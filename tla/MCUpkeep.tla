------------------------------ MODULE MCUpkeep ------------------------------
(* What keeps a host and the fleet's names up to date, side by side: the    *)
(* updates of a managed host and the alias table.  A behaviour is one of    *)
(* one part, the one active names.                                          *)
EXTENDS ManagedUpdate, AliasTable

\* Node 2's clock is one ahead.
MCSkew == [n \in Node |-> n - 1]
MCRefs == {<<"m">>}

VARIABLE active

On(part) == active = part /\ UNCHANGED active

UpkeepInit == active \in {"managed", "aliases"} /\ ManInit /\ AliasInit

UpkeepNext ==
  \/ On("managed") /\ ManNext /\ UNCHANGED aliasVars
  \/ On("aliases") /\ AliasNext /\ UNCHANGED manVars

UpkeepSpec == UpkeepInit /\ [][UpkeepNext]_<<active, manVars, aliasVars>>

\* Bound of the run: all the acts of an operator, or every kind of trouble.
ActsOrTrouble == faults + crashes = MaxFaults + MaxCrashes => acts < MaxActs
-----------------------------------------------------------------------------
\* The last two releases the host ran are on it; the command line program is
\* replaced only after the node of its release has confirmed itself; and in the
\* end the host's container is the one of the release the node asked for
\* (ManagedUpdate).
HelperFollows ==
  /\ [](ManTypeOK /\ RanKept)
  /\ CliConfirmed
  /\ active = "managed" /\ ManFairness => ImageFollows

\* An alias never goes back to an older version, and the nodes come to agree
\* (AliasTable).
AliasesAgree == []AliasTypeOK /\ NeverBack /\ (active = "aliases" /\ AliasFairness => Converges)
=============================================================================
