-------------------------- MODULE MCGraphInstance --------------------------
(* Three graphs: a tool beside a question, a branch with a prompt and a step    *)
(* that may be skipped, and a tool beside a delay.                              *)
EXTENDS GraphInstance, TLC

Edge(from, to, on) == [from |-> from, to |-> to, on |-> on]

Ends == "start" :> "trigger" @@ "finish" :> "end"

Beside(a, b) ==
  {Edge("start", a, "any"), Edge("start", b, "any"),
   Edge(a, "finish", "any"), Edge(b, "finish", "any")}

Definition(kind, edges, tries, skips) ==
  [kind |-> kind, edges |-> edges, skips |-> skips,
   attempts |-> [n \in DOMAIN kind |-> IF n = "work" THEN tries ELSE 1]]

Asking ==
  Definition(Ends @@ "work" :> "call_tool" @@ "ask" :> "feedback_gate",
             Beside("work", "ask"), 2, {})

Branching ==
  Definition(Ends @@ "test" :> "branch" @@ "work" :> "invoke_prompt" @@ "note" :> "pure",
             {Edge("start", "test", "any"), Edge("test", "work", "true"),
              Edge("test", "note", "false"), Edge("work", "finish", "any"),
              Edge("note", "finish", "any")},
             2, {"note"})

Pausing ==
  Definition(Ends @@ "work" :> "call_tool" @@ "pause" :> "delay",
             Beside("work", "pause"), 1, {})

MCGraphs == {Asking, Branching, Pausing}
=============================================================================
