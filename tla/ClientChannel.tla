--------------------------- MODULE ClientChannel ---------------------------
(***************************************************************************)
(* What the user of a client channel of yasio's io_service may count on:   *)
(* an open is answered once, with success or with failure; a connection    *)
(* that was announced ends once; an open is dropped without an answer only *)
(* if the channel was closed in the meantime.                              *)
(***************************************************************************)
EXTENDS Sequences

CONSTANT Channels

VARIABLES life,     \* "idle", "asked" (opened, not answered) or "up"
          closing,  \* the channels closed since they were last opened
          told      \* the events fired and not dispatched

cvars == <<life, closing, told>>

Begin == /\ life = [c \in Channels |-> "idle"]
         /\ closing = {}
         /\ told = <<>>

Become(c, l) == life' = [life EXCEPT ![c] = l]
Tell(c, kind) == told' = Append(told, [c |-> c, kind |-> kind])

Ask(c) == /\ life[c] = "idle"
          /\ \A i \in DOMAIN told : told[i].c # c
          /\ Become(c, "asked")
          /\ closing' = closing \ {c}
          /\ UNCHANGED told

Shut(c) == closing' = closing \cup {c} /\ UNCHANGED <<life, told>>

Drop(c) == /\ life[c] = "asked" /\ c \in closing
           /\ Become(c, "idle")
           /\ UNCHANGED <<closing, told>>

Succeed(c) == /\ life[c] = "asked"
              /\ Become(c, "up")
              /\ Tell(c, "open")
              /\ UNCHANGED closing

Fail(c) == /\ life[c] = "asked"
           /\ Become(c, "idle")
           /\ Tell(c, "failed")
           /\ UNCHANGED closing

End(c) == /\ life[c] = "up"
          /\ Become(c, "idle")
          /\ Tell(c, "close")
          /\ UNCHANGED closing

Deliver == told # <<>> /\ told' = Tail(told) /\ UNCHANGED <<life, closing>>

Move == \/ Deliver
        \/ \E c \in Channels : \/ Ask(c) \/ Shut(c) \/ Drop(c)
                               \/ Succeed(c) \/ Fail(c) \/ End(c)

Promise == Begin /\ [][Move]_cvars
=============================================================================
