------------------------- MODULE MCContextAssembly -------------------------
(* Instances of ContextAssembly for TLC. *)
EXTENDS ContextAssembly, TLC
CONSTANTS a, b, e1
MCName == (a :> {"lookup"}) @@ (b :> {"client", "secret"})
Said(roles, sizes) == [role : roles, call : {None}, size : sizes]
Tools(role, sizes) == [role : {role}, call : Call, size : sizes]
NoMemory == [summary |-> 0, recent |-> <<>>]
(* Whole turns with tools, no memory. *)
TurnMessage == Said({"system", "user"}, {10}) \cup Said({"assistant"}, {20})
               \cup Tools("call", {10}) \cup Tools("tool", {20, 300})
Turns == [messages : BoundedSeq(TurnMessage, 5), memory : {NoMemory},
          budget : {45, 100}, toolCap : {60}, overhead : {24}]
(* Conversations without tools, with a memory. *)
TalkMessage == Said({"system", "assistant"}, {10}) \cup Said({"summary"}, {30})
               \cup Said({"user"}, {10, 20})
Remembered == [role : {"user", "assistant"}, event : Event, size : {10}]
              \cup [role : {"user"}, event : {None}, size : {20}]
Talks == [messages : BoundedSeq(TalkMessage, 3),
          memory : [summary : {0, 30}, recent : BoundedSeq(Remembered, 3)],
          budget : {50, 70}, toolCap : {60}, overhead : {24}]
(* One tool output against every cap, with short and long other fields, and *)
(* with very long ones against caps just with and without room for them.    *)
Outputs(caps, lengths) ==
    LET user == [role |-> "user", call |-> None, size |-> 10]
        call == [role |-> "call", call |-> a, size |-> 10]
        sizes(fields) == {10 + fields \div 4 + 7 * n : n \in 0 .. 49}
    IN  UNION {[messages : {<<user, call, tool>> :
                              tool \in Tools("tool", sizes(fields))},
                memory : {NoMemory}, budget : {2000}, toolCap : caps,
                overhead : {fields}] : fields \in lengths}
MCInputs == Turns \cup Talks \cup Outputs(1 .. 250, {24, 400})
            \cup Outputs(390 .. 410, {1200})
============================================================================
