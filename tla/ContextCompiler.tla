--------------------------- MODULE ContextCompiler ---------------------------
(***************************************************************************)
(* What an agent is told: a node, its ancestors as far as the budget goes, a *)
(* digest of those left out, the topics it refers to, what a search finds,    *)
(* the cards it names and, for a reply to several messages, a block with a    *)
(* share of the budget for each of them.  Every lookup is a step of its own,  *)
(* and the node, its topics and its cards change in between.  A text is its   *)
(* number of tokens.                                                          *)
(***************************************************************************)
EXTENDS Integers, FiniteSets, SequencesExt

CONSTANTS
    Compiles,         \* requests
    Chains,           \* nodes from the current one up: tokens, pinned, cards
    Asked,            \* budgets of requests, 0 for the default
    DefaultBudget,    \* cfg.ContextDefaultBudget
    BudgetPercent,    \* cfg.ContextBudgetPercent
    ModelWindows,     \* what the gateway can report of the model, 0 for nothing
    DeclaredWindow,   \* CONTEXT_MODEL_WINDOWS, 0 for nothing
    MaxAncestors,     \* the request's maxAncestors
    MaxRefs,          \* cfg.ContextMaxRefs
    RetrievalSharePercent,
    ScopeTopics, ResolvedTopics,  \* topics in ascending order of their ids
    Hits,             \* what a search may find: sequences of id and tokens
    CompilerCards, CardRefMaxEvents, MaxCardEvents,
    Selections,       \* sources of replies: tokens, live and signed hash
    SourceMin, SourceMax, SourceStart, SourceCap, BlockMax

Unreachable == -1

VARIABLES
    chain,            \* the node's and its ancestors' rows, newest first
    cardEvents,       \* card -> its last event's number, -1 when there is none
    gatewayWindow,    \* what the gateway reports now
    windowCache,      \* the catalog's snapshot, Unreachable when there is none
    selection,        \* the sources of the reply, <<>> for another node
    compile           \* request -> how far it is and what it has put together

compilerVars == <<chain, cardEvents, gatewayWindow, windowCache, selection, compile>>
worldVars == <<chain, cardEvents, gatewayWindow, windowCache, selection>>

SumOf(s) == FoldLeft(LAMBDA x, y : x + y, 0, s)
Least(a, b) == IF a < b THEN a ELSE b
Most(a, b) == IF a > b THEN a ELSE b

-----------------------------------------------------------------------------
(* The selected sources' block *)

referenceAvailableBudget(p) == Least((IF p <= 0 THEN DefaultBudget ELSE p) \div 2, BlockMax)

\* Tokens above the start by need: the whole shares first, the rest one by one
\* to the largest remainder, in rounds, never past the cap.
allocateRemaining(need, remaining) ==
    LET all == SumOf(need)
        share == [i \in DOMAIN need |->
            IF need[i] = 0 THEN 0 ELSE Least((remaining * need[i]) \div all, SourceCap - SourceStart)]
        left == [i \in DOMAIN need |-> remaining * need[i] - share[i] * all]
        leftover == remaining - SumOf(share)
        order == SortSeq(SelectSeq([i \in DOMAIN need |-> i], LAMBDA i : need[i] > 0),
                         LAMBDA a, b : left[a] > left[b] \/ (left[a] = left[b] /\ a < b))
        rounds == FlattenSeq([k \in 1 .. leftover |-> order])
        give(s, i) == IF s.left = 0 \/ s.of[i] >= SourceCap THEN s
                      ELSE [left |-> s.left - 1, of |-> [s.of EXCEPT ![i] = @ + 1]]
    IN FoldLeft(give, [left |-> leftover, of |-> [i \in DOMAIN need |-> SourceStart + share[i]]], rounds).of

\* What sources cannot use goes, once and in order, to those that lack tokens.
\* A donor below the start gives up all it does not use, another only what was
\* placed.
redistributeUnused(of, tokens) ==
    LET givable == [i \in DOMAIN of |-> Most(of[i] - tokens[i], 0)]
        take(s, i) ==
            LET t == Least(s.pool, Most(Least(SourceCap, tokens[i]) - of[i], 0))
            IN [pool |-> s.pool - t, of |-> [s.of EXCEPT ![i] = @ + t]]
        taken == FoldLeft(take, [pool |-> SumOf(givable), of |-> of], [i \in DOMAIN of |-> i])
        settle(s, i) ==
            LET g == IF tokens[i] < SourceStart THEN givable[i] ELSE Least(givable[i], s.placed)
            IN [placed |-> IF tokens[i] < SourceStart THEN s.placed ELSE s.placed - g,
                of |-> [s.of EXCEPT ![i] = @ - g]]
    IN FoldLeft(settle, [placed |-> SumOf(givable) - taken.pool, of |-> taken.of],
                [i \in DOMAIN of |-> i]).of

AllocateMultiReferenceBudget(p, tokens) ==
    LET need == [i \in DOMAIN tokens |-> Most(Least(tokens[i], SourceCap) - SourceStart, 0)]
        remaining == referenceAvailableBudget(p) - Len(tokens) * SourceStart
        start == [i \in DOMAIN tokens |-> SourceStart]
    IN redistributeUnused(IF remaining > 0 /\ SumOf(need) > 0 THEN allocateRemaining(need, remaining)
                          ELSE start, tokens)

\* One unusable source fails the whole selection.
SelectionRefused(p) ==
    \/ Len(selection) \notin SourceMin .. SourceMax
    \/ \E i \in DOMAIN selection : selection[i].live = 0 \/ selection[i].live # selection[i].signed
    \/ referenceAvailableBudget(p) < Len(selection) * SourceStart

compileMultiReference(p) ==
    LET tokens == [i \in DOMAIN selection |-> selection[i].tokens]
        of == AllocateMultiReferenceBudget(p, tokens)
        allowed(i) == IF of[i] <= 0 THEN SourceStart ELSE of[i]
    IN [i \in DOMAIN selection |->
            [tokens |-> tokens[i], of |-> of[i], used |-> Least(tokens[i], allowed(i)),
             cut |-> tokens[i] > allowed(i)]]

-----------------------------------------------------------------------------
(* The budget *)

windowBudget(window) ==
    IF BudgetPercent <= 0 \/ window <= 0 THEN DefaultBudget
    ELSE Most((window * BudgetPercent) \div 100, 1)

\* snapshot: a cached list, or a new one; a failure is not cached.
Window == IF windowCache # Unreachable THEN windowCache ELSE gatewayWindow

resolveDefaultBudget(named) ==
    IF ~named THEN DefaultBudget
    ELSE windowBudget(IF Window > 0 THEN Window ELSE DeclaredWindow)

\* The window the gateway reported is the ceiling, or ten times the default:
\* a catalog that cannot be reached raises nothing.
clampExplicitBudget(named, asked) ==
    Least(asked, IF named /\ Window > 0 THEN Window ELSE DefaultBudget * 10)

Nothing == [pc |-> "idle", budget |-> 0, left |-> 0, block |-> <<>>, named |-> <<>>, of |-> <<>>,
            kept |-> <<>>, dropped |-> <<>>, depth |-> 0, forced |-> FALSE, digest |-> 0,
            topics |-> <<>>, hits |-> <<>>, seen |-> <<>>, cards |-> <<>>, bound |-> 0,
            over |-> FALSE]

\* The request: ContextHandler.Compile resolves the budget and loads the
\* selection, Compile refuses it or renders the block before anything is read.
BeginCompile(c, asked, named) ==
    LET budget == IF asked = 0 THEN resolveDefaultBudget(named) ELSE clampExplicitBudget(named, asked)
        refused == selection # <<>> /\ SelectionRefused(budget)
    IN
    /\ compile[c].pc = "idle"
    /\ windowCache' = IF named THEN Window ELSE windowCache
    /\ compile' = [compile EXCEPT ![c] =
          [Nothing EXCEPT !.pc = IF refused THEN "refused" ELSE "node", !.budget = budget, !.left = budget,
                          !.block = IF selection = <<>> \/ refused THEN <<>>
                                    ELSE compileMultiReference(budget)]]
    /\ UNCHANGED <<chain, cardEvents, gatewayWindow, selection>>

-----------------------------------------------------------------------------
(* The node and its ancestors *)

\* The cards named and the query of the search are those of this reading.
LoadCurrentNode(c) ==
    /\ compile[c].pc = "node"
    /\ \/ compile' = [compile EXCEPT ![c].pc = "ancestors", ![c].named = chain[1].cards]
       \/ compile' = [compile EXCEPT ![c].pc = "failed"]
    /\ UNCHANGED worldVars

\* Newest first, all that fit and every pinned one; the first that does not fit
\* ends the run of those that are not pinned.
BudgetWalk(nodes, budget) ==
    LET visit(w, i) ==
            IF nodes[i].pinned \/ (~w.tail /\ w.left >= nodes[i].tokens)
            THEN [w EXCEPT !.left = @ - nodes[i].tokens, !.kept = Append(@, i)]
            ELSE [w EXCEPT !.tail = TRUE, !.dropped = Append(@, i)]
    IN FoldLeft(visit, [left |-> budget, kept |-> <<>>, dropped |-> <<>>, tail |-> FALSE],
                [i \in DOMAIN nodes |-> i])

\* A heading and a line for each.
summarizeOmittedNodes(dropped) == 1 + Len(dropped)

\* When nothing fits the newest node is kept all the same, is not dropped then
\* and is not paid for; the digest is paid for or left out.
WalkAncestors(c) ==
    LET q == compile[c]
        nodes == SubSeq(chain, 1, Least(Len(chain), MaxAncestors))
        walk == BudgetWalk(nodes, q.left)
        forced == walk.kept = <<>>
        kept == IF forced THEN <<1>> ELSE walk.kept
        dropped == IF forced THEN Tail(walk.dropped) ELSE walk.dropped
        digest == summarizeOmittedNodes(dropped)
        pays == dropped # <<>> /\ walk.left > 0 /\ digest <= walk.left
    IN
    /\ q.pc = "ancestors"
    /\ \/ compile' = [compile EXCEPT ![c] =
             [q EXCEPT !.pc = "topics", !.of = nodes, !.kept = kept, !.dropped = dropped,
                       !.depth = Len(chain) - Len(nodes), !.forced = forced, !.over = walk.left < 0,
                       !.digest = IF pays THEN digest ELSE 0,
                       !.left = IF pays THEN walk.left - digest ELSE walk.left]]
       \/ compile' = [compile EXCEPT ![c].pc = "failed"]
    /\ UNCHANGED worldVars

-----------------------------------------------------------------------------
(* Topics, search, cards *)

\* The topics the node is in and those it refers to, each once, up to twice the
\* soft cap; the first that does not fit ends them.  Either lookup may fail.
compileReferences(c) ==
    LET q == compile[c]
        fit(topics) == SubSeq(topics, 1, Least(Len(topics), Least(2 * MaxRefs, Most(q.left, 0))))
    IN
    /\ q.pc = "topics"
    /\ \E topics \in {<<>>, ScopeTopics,
                      ScopeTopics \o SelectSeq(ResolvedTopics, LAMBDA t : ~Contains(ScopeTopics, t))} :
          compile' = [compile EXCEPT ![c] =
              [q EXCEPT !.pc = "search", !.topics = fit(topics), !.left = @ - Len(fit(topics))]]
    /\ UNCHANGED worldVars

\* What is found and is no reference, the most relevant first; one that does
\* not fit is skipped.  The share is of the request's budget.
compileRetrieved(c) ==
    LET q == compile[c]
        share == Least((q.budget * RetrievalSharePercent) \div 100, q.left)
        keep(s, h) == IF Contains(q.topics, h.id) \/ h.tokens > s.left
                         \/ (\E k \in Range(s.hits) : k.id = h.id) THEN s
                      ELSE [left |-> s.left - h.tokens, hits |-> Append(s.hits, h)]
    IN
    /\ q.pc = "search"
    /\ \E found \in {<<>>} \cup Hits :
          LET r == FoldLeft(keep, [left |-> share, hits |-> <<>>], found)
          IN compile' = [compile EXCEPT ![c] =
                 IF share <= 0 THEN [q EXCEPT !.pc = "cards"]
                 ELSE [q EXCEPT !.pc = "cards", !.hits = r.hits, !.left = q.left - (share - r.left)]]
    /\ UNCHANGED worldVars

\* ResolveCardReference: the next card named, its row first ...
GetReferencedCard(c) ==
    LET q == compile[c]
        k == Head(q.named)
    IN
    /\ q.pc = "cards" /\ q.named # <<>>
    /\ \/ /\ cardEvents[k] >= 0
          /\ compile' = [compile EXCEPT ![c].pc = "events", ![c].seen = <<cardEvents[k]>>]
       \/ compile' = [compile EXCEPT ![c].pc = "fold", ![c].seen = <<-1>>]
    /\ UNCHANGED worldVars

\* ... then its last events, as of the row: a log that has grown in between may
\* show more than the row says.  This lookup may fail on its own.
loadCardRefEvents(c) ==
    LET q == compile[c]
        after == Most(q.seen[1] - CardRefMaxEvents, 0)
        upto == Least(cardEvents[Head(q.named)], after + CardRefMaxEvents)
    IN
    /\ q.pc = "events"
    /\ \/ compile' = [compile EXCEPT ![c].pc = "fold", ![c].seen = <<q.seen[1], after, upto>>]
       \/ compile' = [compile EXCEPT ![c].pc = "fold", ![c].seen = <<q.seen[1], 0, 0>>]
    /\ UNCHANGED worldVars

\* The block is folded in when it fits, and is listed as left out when not.
compileCardReferences(c) ==
    LET q == compile[c]
        tokens == IF Len(q.seen) = 1 THEN 1 ELSE 1 + q.seen[3] - q.seen[2]
        fits == tokens <= q.left
    IN
    /\ q.pc = "fold"
    /\ compile' = [compile EXCEPT ![c] =
          [q EXCEPT !.pc = "cards", !.named = Tail(@), !.seen = <<>>,
                    !.cards = Append(@, [card |-> Head(q.named), seen |-> q.seen, cut |-> ~fits,
                                         tokens |-> IF fits THEN tokens ELSE 0]),
                    !.left = IF fits THEN @ - tokens ELSE @]]
    /\ UNCHANGED worldVars

\* The cards bound to the hash of the node's text end the context; this lookup
\* may fail too.
compileCards(c) ==
    LET q == compile[c] IN
    /\ q.pc = "cards" /\ q.named = <<>>
    /\ \E bound \in 0 .. 1 :
          compile' = [compile EXCEPT ![c] =
              [q EXCEPT !.pc = "done", !.bound = IF bound <= q.left THEN bound ELSE 0]]
    /\ UNCHANGED worldVars

-----------------------------------------------------------------------------
(* What changes meanwhile *)

EditCurrent ==
    \E other \in Chains :
        /\ Tail(other) = Tail(chain) /\ other # chain
        /\ chain' = other
        /\ UNCHANGED <<cardEvents, gatewayWindow, windowCache, selection, compile>>

CardChanges ==
    /\ \E k \in CompilerCards :
          /\ cardEvents[k] < MaxCardEvents
          /\ cardEvents' = [cardEvents EXCEPT ![k] = @ + 1]
    /\ UNCHANGED <<chain, gatewayWindow, windowCache, selection, compile>>

GatewayChanges ==
    /\ gatewayWindow' \in {Unreachable} \cup ModelWindows
    /\ UNCHANGED <<chain, cardEvents, windowCache, selection, compile>>

CatalogExpires ==
    /\ windowCache' = Unreachable
    /\ UNCHANGED <<chain, cardEvents, gatewayWindow, selection, compile>>

CompilerIdle == compile = [c \in Compiles |-> Nothing]

\* Requests for replies to several messages: only the block matters.
BlockInit ==
    /\ chain \in {<<n>> : n \in {x[1] : x \in Chains}} /\ Len(chain) = 1 /\ chain[1].cards = <<>>
    /\ cardEvents = [k \in CompilerCards |-> -1]
    /\ gatewayWindow = Unreachable /\ windowCache = Unreachable
    /\ selection \in Selections /\ CompilerIdle

ComposeInit ==
    /\ chain \in Chains /\ cardEvents \in [CompilerCards -> {-1, CardRefMaxEvents}]
    /\ gatewayWindow = Unreachable /\ windowCache = Unreachable
    /\ selection = <<>> /\ CompilerIdle

CatalogInit ==
    /\ chain \in Chains /\ Len(chain) = 1 /\ cardEvents = [k \in CompilerCards |-> -1]
    /\ gatewayWindow \in {Unreachable} \cup ModelWindows /\ windowCache = Unreachable
    /\ selection = <<>> /\ CompilerIdle

BlockNext == \E c \in Compiles, asked \in Asked : BeginCompile(c, asked, FALSE)

CatalogNext ==
    \/ \E c \in Compiles, asked \in Asked, named \in BOOLEAN : BeginCompile(c, asked, named)
    \/ GatewayChanges \/ CatalogExpires

ComposeNext ==
    \/ BlockNext
    \/ \E c \in Compiles :
          \/ LoadCurrentNode(c) \/ WalkAncestors(c) \/ compileReferences(c) \/ compileRetrieved(c)
          \/ GetReferencedCard(c) \/ loadCardRefEvents(c) \/ compileCardReferences(c) \/ compileCards(c)
    \/ EditCurrent \/ CardChanges

-----------------------------------------------------------------------------
CompilerTypeOK ==
    /\ chain \in Chains \cup {<<x[1]>> : x \in Chains}
    /\ cardEvents \in [CompilerCards -> -1 .. MaxCardEvents]
    /\ windowCache \in {Unreachable} \cup ModelWindows

\* The sources of a reply share the block's budget: none gets more than the cap
\* or less than its start unless it is shorter, together they keep within the
\* budget, and no token lies idle while a source below the cap is cut.
BlockFits ==
    \A c \in Compiles : LET b == compile[c].block
                            all == SumOf([i \in DOMAIN b |-> b[i].of])
                            budget == referenceAvailableBudget(compile[c].budget)
                        IN b # <<>> =>
        /\ Len(b) = Len(selection) /\ all <= budget
        /\ \A i \in DOMAIN b : b[i].of \in Least(b[i].tokens, SourceStart) .. SourceCap
        /\ (\E i \in DOMAIN b : b[i].cut /\ b[i].of < SourceCap) => all = budget

\* Every node of the chain is kept, dropped or beyond the depth, once; none that
\* is kept is told of as dropped, none that is pinned is dropped, and what is
\* not pinned is kept up to the first that does not fit.
ChainAccounted ==
    \A c \in Compiles : LET q == compile[c] IN q.kept # <<>> =>
        /\ Range(q.kept) \cup Range(q.dropped) = DOMAIN q.of
        /\ Len(q.kept) + Len(q.dropped) = Len(q.of)
        /\ \A i \in Range(q.dropped) : ~q.of[i].pinned
        /\ \A i \in Range(q.kept), j \in Range(q.dropped) : q.of[i].pinned \/ i < j

\* What is put together keeps within the budget: only pinned nodes, with a
\* warning, and the one node that is there when none fits, exceed it.
Together(q) ==
    SumOf([i \in DOMAIN q.kept |-> q.of[q.kept[i]].tokens]) + q.digest + Len(q.topics)
      + SumOf([i \in DOMAIN q.hits |-> q.hits[i].tokens])
      + SumOf([i \in DOMAIN q.cards |-> q.cards[i].tokens]) + q.bound

ContextWithinBudget ==
    \A c \in Compiles : LET q == compile[c] IN q.pc = "done" =>
        \/ Together(q) <= q.budget + (IF q.forced THEN q.of[1].tokens ELSE 0)
        \/ q.over /\ \A i \in 1 .. Len(q.kept) :
              SumOf([j \in 1 .. i |-> q.of[q.kept[j]].tokens]) > q.budget => q.of[q.kept[i]].pinned

\* A topic is in a context once, as a reference or as something found.
TopicsOnce ==
    \A c \in Compiles :
        IsInjective(compile[c].topics \o [i \in DOMAIN compile[c].hits |-> compile[c].hits[i].id])

\* The events shown of a card reach from the last ones its row knows to no
\* further than the limit, whatever was appended between the two lookups.
EventsReachTheRow ==
    \A c \in Compiles : \A i \in DOMAIN compile[c].cards :
        LET s == compile[c].cards[i].seen IN Len(s) = 3 =>
            \/ s[3] = 0
            \/ /\ s[3] >= s[1] /\ s[3] - s[2] <= CardRefMaxEvents
               /\ s[1] >= CardRefMaxEvents => s[3] = s[1]

\* A budget beyond the default's ceiling is one of a window that is known.
CeilingHolds ==
    \A c \in Compiles : compile[c].pc # "idle" =>
        \/ compile[c].budget <= 10 * DefaultBudget
        \/ \E w \in ModelWindows \cup {DeclaredWindow} : compile[c].budget <= w
=============================================================================
