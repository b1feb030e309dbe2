---------------------------- MODULE MCChatSession ----------------------------
(* Small instances of ChatSession: the commands by the letters of what they ask. *)
EXTENDS ChatSession, TLC
CONSTANTS s, u, x, q, t, d, v, b, l, m, p, w
Asks(type, i) == [type |-> type, policy |-> "after_turn", item |-> i, before |-> None]
MCRequest ==
    [c \in Command |->
        CASE c \in {s, u} -> Asks("turn.submit", None)
          [] c = x -> Asks("turn.interrupt", None)
          [] c = l -> Asks("slash.execute", None)
          [] c = m -> [Asks("queue.move", q) EXCEPT !.before = IF p \in Command THEN p ELSE None]
          [] c \in {q, p} -> Asks("queue.add", None)
          [] c \in {t, w} -> [Asks("queue.add", None) EXCEPT !.policy = "after_tool_boundary"]
          [] c = d -> Asks("queue.dispatch", q)
          [] c = v -> Asks("queue.remove", q)]
=============================================================================
