---------------------------- MODULE MCInterchange ----------------------------
(***************************************************************************)
(* What comes in and goes out: the transport adapters, the topics a message  *)
(* names, the context compiled for a reply, and the import of Hermes'        *)
(* sessions.  They share no state, so the run checks one at a time: focus is *)
(* chosen at the start and stays, and the others keep one initial state.     *)
(***************************************************************************)
EXTENDS TransportAdapters, References, ContextCompiler, Sessions, TLC

CONSTANTS t1, t2, unknown, k1

VARIABLE focus

interchangeVars == <<focus, adapterVars, refVars, compilerVars, sessionVars>>

Foci == {"sockets", "remotes", "links", "client", "sending", "injecting", "indexing",
         "block", "compose", "catalog", "import", "snapshots"}

InterchangeInit ==
    /\ focus \in Foci
    /\ AdaptersInit
    /\ RefInit
    /\ focus \in {"sending", "injecting", "indexing"} \/ \A t \in RefTopics : topicStatus[t] = "active"
    /\ CASE focus = "block" -> BlockInit
         [] focus = "compose" -> ComposeInit
         [] focus = "catalog" -> CatalogInit
         [] OTHER -> CatalogInit /\ chain[1].tokens = 1 /\ gatewayWindow = Unreachable
    /\ ImportInit
    /\ SnapshotInit /\ (focus = "snapshots" \/ snapshots = {})

InterchangeNext ==
    /\ UNCHANGED focus
    /\ \/ /\ focus = "sockets" /\ SocketsNext
          /\ UNCHANGED <<remoteVars, linkVars, clientVars, refVars, compilerVars, sessionVars>>
       \/ /\ focus = "remotes" /\ RemotesNext
          /\ UNCHANGED <<socketVars, linkVars, clientVars, refVars, compilerVars, sessionVars>>
       \/ /\ focus = "links" /\ LinksNext
          /\ UNCHANGED <<socketVars, remoteVars, clientVars, refVars, compilerVars, sessionVars>>
       \/ /\ focus = "client" /\ ClientLoopNext
          /\ UNCHANGED <<socketVars, remoteVars, linkVars, refVars, compilerVars, sessionVars>>
       \/ /\ \/ focus = "sending" /\ SendingNext
             \/ focus = "injecting" /\ InjectingNext
             \/ focus = "indexing" /\ IndexingNext
          /\ UNCHANGED <<adapterVars, compilerVars, sessionVars>>
       \/ /\ \/ focus = "block" /\ BlockNext
             \/ focus = "compose" /\ ComposeNext
             \/ focus = "catalog" /\ CatalogNext
          /\ UNCHANGED <<adapterVars, refVars, sessionVars>>
       \/ /\ focus = "import" /\ ImportNext
          /\ UNCHANGED <<adapterVars, refVars, compilerVars, snapshotVars>>
       \/ /\ focus = "snapshots" /\ SnapshotNext
          /\ UNCHANGED <<adapterVars, refVars, compilerVars, importVars>>

InterchangeSpec == InterchangeInit /\ [][InterchangeNext]_interchangeVars

-----------------------------------------------------------------------------
(* Values. *)

MCScope == (t1 :> <<1, 2>>) @@ (t2 :> <<2>>)
MCContents == {<<t1, t2>>, <<t2, t1>>, <<t1, "card", t1>>, <<t1, t2, unknown>>, <<unknown, t1>>}
MCInjections == {<<{t1}, {t2}>>, <<{}, {t1}>>}
MCRequested == {<<t1>>, <<t2, t1>>}

Row(t, p, cs) == [tokens |-> t, pinned |-> p, cards |-> cs]
FirstRows == {Row(2, FALSE, <<k1>>), Row(1, FALSE, <<>>), Row(3, TRUE, <<k1>>)}
OtherRows == {Row(1, FALSE, <<>>), Row(2, TRUE, <<>>), Row(3, FALSE, <<>>)}
MCChains ==
    {<<a>> : a \in FirstRows}
    \cup {<<a, b>> : a \in FirstRows, b \in OtherRows}
    \cup {<<a, b, b>> : a \in FirstRows, b \in OtherRows}

Picked(t, l) == [tokens |-> t, live |-> l, signed |-> 1]
MCSelections ==
    {<<Picked(a, 1), Picked(b, 1), Picked(d, 1)>> : a, b, d \in {0, 1, 3, 4, 5, 7}}
    \cup {<<Picked(a, 1), Picked(b, l)>> : a, b \in 0 .. 7, l \in 0 .. 2}
    \cup {<<Picked(1, 1)>>, <<Picked(1, 1), Picked(1, 1), Picked(1, 1), Picked(1, 1)>>}

MCHits == {<<[id |-> 3, tokens |-> 2], [id |-> 1, tokens |-> 1], [id |-> 4, tokens |-> 1]>>}
MCScopeTopics == <<1>>
MCResolved == <<1, 2, 3>>
MCAsked == {0, 3, 5, 7, 8, 14, 19, 23, 60, 85, 200}

\* The second session is older than the others and the first is its child; the
\* third cannot be stored.
MCStartedAt == (1 :> 1) @@ (2 :> 0) @@ (3 :> 1)
MCParentStory == (1 :> 2) @@ (2 :> 0) @@ (3 :> 0)
MCFirstAsk == (1 :> 1) @@ (2 :> 0) @@ (3 :> 1)
MCLengths == (1 :> 2) @@ (2 :> 0) @@ (3 :> 1)
MCImportOptions == {[limit |-> 0, archived |-> FALSE], [limit |-> 1, archived |-> TRUE]}

\* The sets whose members are interchangeable have the same elements in the
\* cfg, so that two permutations serve them all.
InterchangeSymmetry == Permutations(Importers) \cup Permutations(Leavers)

-----------------------------------------------------------------------------
\* Channels are closed once and only a reader can meet a closed one, the feed
\* is delivered in order, what a connection held is released when it goes, and
\* the relay client runs one loop.
AdaptersSound ==
    focus \in {"sockets", "remotes", "links", "client"} =>
        /\ AdaptersTypeOK /\ ClosedOnce /\ OnlyReadersCrash /\ FeedInOrder
        /\ LinksReleased /\ OneLoop

\* What goes into a conversation is what its sources hold: the topics a message
\* names, the context a reply is given, the trees and copies of Hermes' sessions.
ContentSound ==
    /\ focus \in {"sending", "injecting", "indexing"} =>
        /\ RefTypeOK /\ CountsAgree /\ LinksWhole /\ ToldOnce
        /\ InjectedWithinBudget /\ ServedIdsCurrent /\ SearchFinds /\ OfferedResolves
    /\ focus \in {"block", "compose", "catalog"} =>
        /\ CompilerTypeOK /\ BlockFits /\ ChainAccounted /\ ContextWithinBudget
        /\ TopicsOnce /\ EventsReachTheRow /\ CeilingHolds
    /\ focus \in {"import", "snapshots"} =>
        /\ SessionsTypeOK /\ NoSecondTree /\ NonePassedBy /\ MessagesChained
        /\ CopiesWhole /\ CopiesSwept
=============================================================================
