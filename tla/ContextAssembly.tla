-------------------------- MODULE ContextAssembly --------------------------
(***************************************************************************)
(* assembleBrokeredLlmContext of packages/context-assembler: the messages  *)
(* of a request and the conversation memory are cut into segments, the     *)
(* tool outputs of the active turn are reduced, the pinned segments are    *)
(* charged to the token budget, the others are taken newest first as long  *)
(* as they fit, and what was taken is put together and validated.          *)
(*                                                                         *)
(* A text is its token estimate (size).  A message that calls a tool has   *)
(* the role "call"; the role "tool" is its output, "summary" is a system   *)
(* message that starts with "Conversation summary:".  Every call names its *)
(* tool and every output the tool of its call.  How a host's reducer       *)
(* shortens a text is abstracted to the size it leaves; reports, metadata  *)
(* and warnings are left out.                                              *)
(***************************************************************************)
EXTENDS Integers, SequencesExt, FiniteSetsExt

CONSTANTS
    Call,         \* tool call ids
    Event,        \* event ids of remembered messages
    None,         \* no call, no event
    Name,         \* [Call -> SUBSET STRING]: the words of the tool's name
    Exact,        \* calls whose tool declares the "exact" strategy
    Inputs,       \* records of messages, memory, budget, toolCap, overhead
    SpecTokens,   \* estimate of the tool schemas
    SummaryCap,   \* estimate of a summary cut to maxSummaryTokens
    RecentLimit,  \* rawMemoryMessageLimit
    Leaves,       \* estimates of what a host's reducer leaves of an output
    Notice        \* characters of the notice of a reduction

ASSUME ContextConstants ==
    /\ Exact \subseteq Call
    /\ SpecTokens \in Nat /\ SummaryCap \in Nat \ {0}
    /\ RecentLimit \in Nat /\ Notice \in Nat
    /\ Leaves \subseteq Nat

(* A message by its role, its call and its estimate; an entry of the       *)
(* memory by its role, its event and its estimate.                         *)
Message ==
    [role : {"system", "summary", "user", "assistant", "call", "tool"},
     call : Call \cup {None}, size : Nat]
Entry == [role : {"user", "assistant"}, event : Event \cup {None}, size : Nat]

ASSUME InputsAssumption ==
    \A i \in Inputs : /\ i.messages \in Seq(Message) /\ i.budget \in Int
                      /\ i.toolCap \in Nat /\ i.overhead \in Nat
                      /\ i.memory.summary \in Nat
                      /\ i.memory.recent \in Seq(Entry)

VARIABLES
    request,    \* request.messages
    memory,     \* input.memory
    budget,     \* maxInputTokens - reserved - safety margin
    toolCap,    \* maxToolOutputTokens
    overhead,   \* characters an estimate of an output counts beside its text
    phase,
    at,         \* index of the loop over the messages, then over the segments
    segments,
    used,       \* usedTokens
    waiting,    \* the optional segments not yet visited
    selected,   \* ids
    dropped,    \* the segments reported as dropped
    assembled   \* the messages of the assembled request

input == <<request, memory, budget, toolCap, overhead>>
vars == <<input, phase, at, segments, used, waiting,
          selected, dropped, assembled>>

----------------------------------------------------------------------------
(* Messages. *)

SystemRole == {"system", "summary"}

\* The sum of the values of a function.
Total(f) == FoldFunction(+, 0, f)

Tokens(messages) == Total([i \in DOMAIN messages |-> messages[i].size])

LastIndex(roles) == SelectLastInSeq(request, LAMBDA m : m.role \in roles) - 1

findLastUserIndex == LastIndex({"user"})
findLastSystemIndex == LastIndex(SystemRole)

(* The words that make an output one that must be kept to the letter. *)
ExactWords ==
    {"approval", "approve", "authenticate", "authorization", "authorize",
     "credential", "credentials", "mnemonic", "oauth", "oidc", "openid",
     "passkey", "secret", "secrets", "seedphrase", "signature", "signed",
     "signing", "webauthn"}
AuthContext ==
    {"callback", "challenge", "code", "exchange", "oauth", "request",
     "resolution", "resolve", "response", "result", "token", "verify"}
SignContext ==
    {"digest", "message", "payload", "request", "result", "transaction",
     "typed", "typeddata"}
ExactPairs ==
    {{"access", "token"}, {"api", "key"}, {"client", "secret"},
     {"device", "code"}, {"id", "token"}, {"private", "key"},
     {"recovery", "code"}, {"refresh", "token"}, {"seed", "phrase"}}

toolNameRequiresExactOutput(words) ==
    \/ words \cap ExactWords # {}
    \/ {"wallet", "setup"} \subseteq words
    \/ \E pair \in ExactPairs : pair \subseteq words
    \/ "sign" \in words /\ words \cap SignContext # {}
    \/ /\ words \cap {"auth", "authentication"} # {}
       /\ "status" \notin words
       /\ words \cap AuthContext # {}

requiresExactToolOutput(m) ==
    m.call \in Exact \/ toolNameRequiresExactOutput(Name[m.call])

(* The generic validation, of a request's messages in order. *)
Valid(messages) ==
    /\ messages # <<>>
    /\ \A i \in DOMAIN messages :
         LET before == {j \in 1 .. i - 1 :
                          /\ messages[j].role = "call"
                          /\ messages[j].call = messages[i].call}
         IN  /\ messages[i].role = "call" => before = {}
             /\ messages[i].role = "tool" => before # {}

----------------------------------------------------------------------------
(* Segments.  The order of a message is its index, in thousandths. *)

Pinned == {"system", "memory_summary", "active_tool_protocol", "current_user"}

isSystemLikeSegment(s) == s.kind \in {"system", "memory_summary"}

createMessageSegment(id, kind, order, messages) ==
    [id |-> id, kind |-> kind, order |-> order, messages |-> messages,
     tokens |-> Tokens(messages)]

(* A summary over its cap is cut to it.  SummaryCap is the estimate of the *)
(* message a cut leaves, with the role and the notice that come on top of  *)
(* maxSummaryTokens.                                                       *)
maybeCapMemorySummary(m) ==
    IF m.size > SummaryCap THEN [m EXCEPT !.size = SummaryCap] ELSE m

\* Mutant of RecentOrder: the memory is placed behind the last user message.
RecentOrderAtUser ==
    IF findLastUserIndex >= 0 THEN findLastUserIndex * 1000 + 200 ELSE -800

RecentOrder ==
    IF findLastSystemIndex >= 0 THEN findLastSystemIndex * 1000 + 200 ELSE -800

SummaryOrder ==
    IF findLastSystemIndex >= 0 THEN findLastSystemIndex * 1000 + 100 ELSE -1000

(* slice(-limit): a limit of 0 keeps everything. *)
Recent ==
    LET n == Len(memory.recent)
    IN  IF RecentLimit = 0 \/ n <= RecentLimit THEN memory.recent
        ELSE SubSeq(memory.recent, n - RecentLimit + 1, n)

buildMemorySegments ==
    (IF memory.summary = 0 THEN <<>> ELSE
       <<createMessageSegment(<<"memory_summary">>, "memory_summary",
           SummaryOrder,
           <<maybeCapMemorySummary([role |-> "summary", call |-> None,
                                    size |-> memory.summary])>>)>>)
    \o [i \in DOMAIN Recent |->
          LET e == Recent[i]
          IN  createMessageSegment(
                <<"memory_recent", e.event,
                  IF e.event = None THEN i - 1 ELSE 0>>,
                "recent_exact", RecentOrder + i - 1,
                <<[role |-> e.role, call |-> None, size |-> e.size]>>)]

\* Mutant of RunEnd: the outputs of a run are segments of their own.
RunEndAtOutput(i) ==
    LET n == Len(request)
    IN  Min({j \in i + 1 .. n + 1 : j = n + 1 \/ request[j].role # "call"})

(* The run of tool calls that starts at i, with the outputs that follow:   *)
(* calls up to the first message that is none, then outputs, each for a    *)
(* call of the run that has none yet.                                      *)
RunEnd(i) ==
    LET n == Len(request)
        calls == Min({j \in i + 1 .. n + 1 :
                        j = n + 1 \/ request[j].role # "call"})
        ids == {request[j].call : j \in i .. calls - 1}
    IN  Min({j \in calls .. n + 1 :
               \/ j = n + 1
               \/ request[j].role # "tool"
               \/ request[j].call \notin ids
               \/ \E k \in calls .. j - 1 : request[k].call = request[j].call})

\* Mutant of IsActive: turns are counted from the first user message.
IsActiveLate(i) == findLastUserIndex = -1 \/ i - 1 > findLastUserIndex + 1

IsActive(i) == findLastUserIndex = -1 \/ i - 1 > findLastUserIndex

ProtocolKind(i) ==
    IF IsActive(i) THEN "active_tool_protocol" ELSE "historical_tool_protocol"

(* What the loop makes of the messages i to end - 1. *)
Segment(i, kind, messages) ==
    createMessageSegment(<<kind, i - 1>>, kind, (i - 1) * 1000, messages)

Push(kind, messages, next) ==
    /\ segments' = Append(segments, Segment(at, kind, messages))
    /\ at' = next
    /\ UNCHANGED <<input, phase, used, waiting, selected,
                   dropped, assembled>>

ReadSystem ==
    /\ phase = "build" /\ at <= Len(request)
    /\ request[at].role \in SystemRole
    /\ Push(IF request[at].role = "summary" THEN "memory_summary" ELSE "system",
            <<maybeCapMemorySummary(request[at])>>, at + 1)

ReadRun ==
    /\ phase = "build" /\ at <= Len(request)
    /\ request[at].role = "call"
    /\ Push(ProtocolKind(at), SubSeq(request, at, RunEnd(at) - 1), RunEnd(at))

ReadOrphan ==
    /\ phase = "build" /\ at <= Len(request)
    /\ request[at].role = "tool"
    /\ Push(ProtocolKind(at), <<request[at]>>, at + 1)

ReadTalk ==
    /\ phase = "build" /\ at <= Len(request)
    /\ request[at].role \in {"user", "assistant"}
    /\ Push(IF at - 1 = findLastUserIndex THEN "current_user"
            ELSE IF request[at].role = "assistant" THEN "assistant"
            ELSE "recent_exact", <<request[at]>>, at + 1)

Built ==
    /\ phase = "build" /\ at > Len(request)
    /\ phase' = "reduce" /\ at' = 1
    /\ UNCHANGED <<input, segments, used, waiting, selected,
                   dropped, assembled>>

----------------------------------------------------------------------------
(* Reducing the tool outputs of the active turn. *)

Oversize(m) == m.role = "tool" /\ m.size > toolCap

(***************************************************************************)
(* createHeadTailReduction keeps the head and the tail of a text under a   *)
(* notice, estimates the message, and tries again with a smaller cap, six  *)
(* times at most.  A text of estimate n is the longest there is, 0.72 is   *)
(* 72/100 (the product of doubles may round the other way, by one token).  *)
(***************************************************************************)
AtLeast(low, n) == IF n < low THEN low ELSE n

Characters(size) == 4 * (size - 8) - overhead

estimateMessage(length) == 8 + (overhead + length + 3) \div 4

Omitted == 17   \* the line "[...omitted...]" between head and tail

truncateWithNotice(length, maxTokens) ==
    LET maxChars == AtLeast(24, maxTokens * 4)
    IN  IF length <= maxChars THEN length
        ELSE Notice + AtLeast(40, maxChars - Notice) + Omitted

\* Mutant of Shrunk: the cap of the next attempt is nearly the same.
ShrunkSlowly(n) == AtLeast(1, (n * 92) \div 100)

Shrunk(n) == AtLeast(1, (n * 72) \div 100 - 8)

TokenCap[attempt \in 0 .. 5] ==
    IF attempt = 0 THEN toolCap ELSE Shrunk(TokenCap[attempt - 1])

HeadTail(size) ==
    LET left == [k \in 0 .. 5 |->
                   estimateMessage(
                     truncateWithNotice(Characters(size), TokenCap[k]))]
        fits == {k \in 0 .. 5 : left[k] <= toolCap}
    IN  left[IF fits = {} THEN 5 ELSE Min(fits)]

(* What becomes of an output over the cap: what a host's reducer leaves if *)
(* that fits, else its head and tail, or those of the output itself.       *)
ReducedSizes(size) ==
    {n \in Leaves : n <= toolCap}
    \cup {HeadTail(n) : n \in {size} \cup {n \in Leaves : n > toolCap}}

Reductions(s, over) ==
    {f \in [over -> UNION {ReducedSizes(s.messages[k].size) : k \in over}] :
       \A k \in over : f[k] \in ReducedSizes(s.messages[k].size)}

\* Mutant of reduceSegmentIfNeeded: the name of the tool is not looked at.
reduceRegardless ==
    LET s == segments[at]
        over == IF s.kind # "active_tool_protocol" THEN {}
                ELSE {k \in DOMAIN s.messages : Oversize(s.messages[k])}
        shrunk(f) == [k \in DOMAIN s.messages |->
                        IF k \in over THEN [s.messages[k] EXCEPT !.size = f[k]]
                        ELSE s.messages[k]]
    IN  /\ phase = "reduce" /\ at <= Len(segments)
        /\ \E f \in Reductions(s, over) :
             segments' = [segments EXCEPT
                            ![at].messages = shrunk(f),
                            ![at].tokens = Tokens(shrunk(f))]
        /\ at' = at + 1
        /\ UNCHANGED <<input, phase, used, waiting, selected,
                       dropped, assembled>>

reduceSegmentIfNeeded ==
    LET s == segments[at]
        over == IF s.kind # "active_tool_protocol" THEN {}
                ELSE {k \in DOMAIN s.messages : Oversize(s.messages[k])}
        shrunk(f) == [k \in DOMAIN s.messages |->
                        IF k \in over THEN [s.messages[k] EXCEPT !.size = f[k]]
                        ELSE s.messages[k]]
    IN  /\ phase = "reduce" /\ at <= Len(segments)
        /\ \A k \in over : ~requiresExactToolOutput(s.messages[k])
        /\ \E f \in Reductions(s, over) :
             segments' = [segments EXCEPT
                            ![at].messages = shrunk(f),
                            ![at].tokens = Tokens(shrunk(f))]
        /\ at' = at + 1
        /\ UNCHANGED <<input, phase, used, waiting, selected,
                       dropped, assembled>>

Throw(code) ==
    /\ phase' = code
    /\ UNCHANGED <<input, at, segments, used, waiting,
                   selected, dropped, assembled>>

(* The output must be exact by its tool, or a host's reducer marked what   *)
(* it left, still over the cap, as exact.                                  *)
ExactOutputTooLarge ==
    /\ phase = "reduce" /\ at <= Len(segments)
    /\ segments[at].kind = "active_tool_protocol"
    /\ \E k \in DOMAIN segments[at].messages :
         Oversize(segments[at].messages[k])
    /\ Throw("context_exact_tool_output_exceeded")

----------------------------------------------------------------------------
(* The budget. *)

IsPinned(s) == s.kind \in Pinned

\* No two segments are the same, so that sets of them can be summed.
Cost(segs) == Total([s \in segs |-> s.tokens])

PinnedTokens == SpecTokens + Cost({s \in ToSet(segments) : IsPinned(s)})

ChargePinned ==
    /\ phase = "reduce" /\ at > Len(segments)
    /\ PinnedTokens <= budget
    /\ used' = PinnedTokens
    /\ selected' = {s.id : s \in {s \in ToSet(segments) : IsPinned(s)}}
    /\ waiting' = {s \in ToSet(segments) : ~IsPinned(s)}
    /\ phase' = "choose"
    /\ UNCHANGED <<input, at, segments, dropped, assembled>>

PinnedTooLarge ==
    /\ phase = "reduce" /\ at > Len(segments)
    /\ PinnedTokens > budget
    /\ Throw("context_budget_exceeded")

\* Mutant of Newest: the sort is the other way round.
NewestLast == CHOOSE s \in waiting : \A t \in waiting : s.order <= t.order

Newest == CHOOSE s \in waiting : \A t \in waiting : s.order >= t.order

\* Mutant of Keep: the segment that goes over the budget is kept as well.
KeepWhileWithin ==
    /\ phase = "choose" /\ waiting # {}
    /\ used <= budget
    /\ selected' = selected \cup {Newest.id}
    /\ used' = used + Newest.tokens
    /\ waiting' = waiting \ {Newest}
    /\ UNCHANGED <<input, phase, at, segments, dropped,
                   assembled>>

Keep ==
    /\ phase = "choose" /\ waiting # {}
    /\ used + Newest.tokens <= budget
    /\ selected' = selected \cup {Newest.id}
    /\ used' = used + Newest.tokens
    /\ waiting' = waiting \ {Newest}
    /\ UNCHANGED <<input, phase, at, segments, dropped,
                   assembled>>

Drop ==
    /\ phase = "choose" /\ waiting # {}
    /\ used + Newest.tokens > budget
    /\ dropped' = dropped \cup {Newest}
    /\ waiting' = waiting \ {Newest}
    /\ UNCHANGED <<input, phase, at, segments, used, selected,
                   assembled>>

\* Mutant of Precedes: the selected segments stay as they were chosen.
PrecedesNewestFirst(j, k) ==
    LET s == segments[j]
        t == segments[k]
    IN  IF isSystemLikeSegment(s) # isSystemLikeSegment(t)
        THEN isSystemLikeSegment(s)
        ELSE s.order > t.order \/ (s.order = t.order /\ j < k)

(* The segments that go out stand at a place each: the system-like ones     *)
(* first, then by their order, and the sort is stable.                      *)
Precedes(j, k) ==
    LET s == segments[j]
        t == segments[k]
    IN  IF isSystemLikeSegment(s) # isSystemLikeSegment(t)
        THEN isSystemLikeSegment(s)
        ELSE s.order < t.order \/ (s.order = t.order /\ j < k)

Chosen == {k \in DOMAIN segments : segments[k].id \in selected}

SelectedSegments ==
    LET chosen == Chosen
        place == [k \in chosen |->
                    1 + Cardinality({j \in chosen : Precedes(j, k)})]
    IN  [n \in 1 .. Cardinality(chosen) |->
           segments[CHOOSE k \in chosen : place[k] = n]]

MessagesOf(segs) == FlattenSeq([i \in DOMAIN segs |-> segs[i].messages])

AssembledMessages == MessagesOf(SelectedSegments)

Assemble ==
    /\ phase = "choose" /\ waiting = {}
    /\ assembled' = AssembledMessages
    /\ phase' = IF Valid(AssembledMessages) THEN "done" ELSE "invalid"
    /\ UNCHANGED <<input, at, segments, used, waiting,
                   selected, dropped>>

----------------------------------------------------------------------------
Init ==
    /\ \E i \in Inputs : /\ request = i.messages /\ memory = i.memory
                         /\ budget = i.budget /\ toolCap = i.toolCap
                         /\ overhead = i.overhead
    /\ phase = "build"
    /\ at = 1
    /\ segments = buildMemorySegments
    /\ used = 0
    /\ waiting = {} /\ selected = {} /\ dropped = {}
    /\ assembled = <<>>

Next ==
    \/ ReadSystem \/ ReadRun \/ ReadOrphan \/ ReadTalk \/ Built
    \/ reduceSegmentIfNeeded \/ ExactOutputTooLarge
    \/ ChargePinned \/ PinnedTooLarge
    \/ Keep \/ Drop \/ Assemble

Spec == Init /\ [][Next]_vars

----------------------------------------------------------------------------
(* Types. *)
TypeOK ==
    /\ phase \in {"build", "reduce", "choose", "done", "invalid",
                  "context_exact_tool_output_exceeded",
                  "context_budget_exceeded"}
    /\ at \in 1 .. Len(request) + Len(segments) + 1
    /\ used \in Nat
    /\ waiting \cup dropped \subseteq ToSet(segments)
    /\ waiting \cap dropped = {}

UniqueIds == Cardinality({s.id : s \in ToSet(segments)}) = Len(segments)

(* The assembled request, with the tool schemas, costs exactly what was    *)
(* charged, and that is within the budget; nothing reported as dropped is  *)
(* in it.  Two memory entries of the same event share one segment id: when *)
(* one of them is kept the other is sent as well, uncharged, though it is  *)
(* reported as dropped.                                                    *)
BudgetKept ==
    /\ TypeOK
    /\ \A s \in ToSet(segments) : s.tokens = Tokens(s.messages)
    /\ phase = "done" /\ UniqueIds =>
          /\ SpecTokens + Tokens(assembled) = used
          /\ used <= budget
          /\ \A s \in dropped : s.id \notin selected

(* Newer segments come first: a dropped segment does not fit beside the    *)
(* pinned ones and those kept that are no older, so no older segment is    *)
(* kept in its place unless it is smaller.                                 *)
NoOlder(s) == {t \in ToSet(segments) \ (waiting \cup dropped) :
                 IsPinned(t) \/ t.order >= s.order}

NewestFirst ==
    \A s \in dropped : SpecTokens + Cost(NoOlder(s)) + s.tokens > budget

(* Every output follows the calls of its run, with only calls and outputs  *)
(* of other calls between.                                                 *)
Tidy ==
    \A i \in DOMAIN request : request[i].role = "tool" =>
        \E c \in 1 .. i - 1, k \in 1 .. i :
            /\ c < k
            /\ request[c].role = "call" /\ request[c].call = request[i].call
            /\ \A j \in c .. k - 1 : request[j].role = "call"
            /\ \A j \in k .. i - 1 : /\ request[j].role = "tool"
                                     /\ request[j].call # request[i].call

(* Dropping history never tears an output from its call: when a valid      *)
(* request keeps its outputs next to their calls, the assembled request is *)
(* refused only because nothing at all of it is left.  An output that      *)
(* comes late is a segment of its own, and then the assembly may throw.    *)
ToolRunsStayWhole ==
    phase = "invalid" /\ Valid(request) /\ Tidy => assembled = <<>>

(* The output of a tool that needs it to the letter is sent unreduced.     *)
ExactIsKept ==
    phase = "done" =>
        \A m \in ToSet(assembled) :
            m.role = "tool" /\ requiresExactToolOutput(m) =>
                m \in ToSet(request)

(* The cap leaves room: for the shortest head and tail with their notice,  *)
(* and for as much text again as a third of what is counted beside it.     *)
CapHasRoom == /\ toolCap >= estimateMessage(Notice + 40 + Omitted)
              /\ overhead <= 3 * toolCap

(* An output of the turn in progress that goes to the model is within the  *)
(* cap, whatever the reducers left: six attempts are enough, if the cap    *)
(* has room.                                                               *)
CapHolds ==
    phase \in {"choose", "done"} /\ CapHasRoom =>
        \A s \in ToSet(segments) :
            s.kind = "active_tool_protocol" =>
                \A k \in DOMAIN s.messages : ~Oversize(s.messages[k])

(* The turn in progress is never dropped: the last user message and the    *)
(* calls and outputs after it are all in the assembled request.            *)
ActiveTurnStays ==
    LET turn == {"user", "call", "tool"}
        count(seq, from, r, c) ==
          Cardinality({i \in DOMAIN seq :
                         i > from /\ seq[i].role = r /\ seq[i].call = c})
    IN  phase = "done" =>
          \A r \in turn, c \in Call \cup {None} :
            count(assembled, 0, r, c) >= count(request, findLastUserIndex, r, c)

(* How many messages of some roles stand behind place x.                   *)
After(seq, x, roles) ==
    Cardinality({y \in DOMAIN seq : y > x /\ seq[y].role \in roles})

(* Counted from the end, the messages of these roles in the assembled      *)
(* request are those of the turn, for as long as there is a turn.          *)
EndsWithTurn(roles) ==
    \A i \in DOMAIN request :
        i > findLastUserIndex /\ request[i].role \in roles =>
            \E x \in DOMAIN assembled :
                /\ assembled[x].role = request[i].role
                /\ assembled[x].call = request[i].call
                /\ After(assembled, x, roles) = After(request, i, roles)

(* A remembered message counts a thousandth, and there is room for 800 of  *)
(* them before the order of the next message.                              *)
MemoryFits == Len(Recent) <= 800

(* The assembled request ends with the turn in progress: its last calls    *)
(* and outputs are those of the turn, in their order.  If a user message   *)
(* began the turn, and no system message came during it, the last user     *)
(* message of the assembled request is that one too, and nothing older     *)
(* stands behind it: neither history nor memory.                           *)
TurnComesLast ==
    phase = "done" =>
        /\ EndsWithTurn({"call", "tool"})
        /\ findLastSystemIndex < findLastUserIndex /\ MemoryFits =>
             /\ EndsWithTurn({"user", "call", "tool"})
             /\ \A x \in DOMAIN assembled :
                  assembled[x].role = "user" =>
                     \/ After(assembled, x, {"user"}) > 0
                     \/ After(assembled, x, {"assistant"}) <=
                        After(request, findLastUserIndex + 1, {"assistant"})

(* The conversation keeps its order, and what is kept of the memory stands *)
(* in it where the last system message of the request stood: it leads the  *)
(* conversation when system messages only lead the request, and with one   *)
(* in the middle it comes after messages that are newer than it.           *)
ConversationInOrder ==
    LET index(s) == IF s.id[1] = "memory_recent" THEN findLastSystemIndex
                    ELSE s.id[2]
        sent == SelectedSegments
    IN  phase = "done" /\ MemoryFits =>
          \A i, j \in DOMAIN sent :
            /\ i < j
            /\ ~isSystemLikeSegment(sent[i]) /\ ~isSystemLikeSegment(sent[j])
            => index(sent[i]) <= index(sent[j])

(* All four: the request ends with the turn in progress, all of it and to  *)
(* the letter where need be, in the order of the conversation; memory gets *)
(* into the turn only when a system message came during it.                *)
TurnStaysLast ==
    ActiveTurnStays /\ ExactIsKept /\ TurnComesLast /\ ConversationInOrder

=============================================================================
