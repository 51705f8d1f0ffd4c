-------------------------------- MODULE Mailbox --------------------------------
(*****************************************************************************)
(* What ChatStream promises about one message, whatever the handlers, the    *)
(* hub and the streams do in between: it is stored, then acknowledged to the *)
(* stream it came from, then pushed, at most once to each stream and only to *)
(* streams of its recipient, in the order in which its sender sent it.  A    *)
(* message may stop after any of these stages.                               *)
(*****************************************************************************)
EXTENDS Naturals, Sequences

CONSTANTS
  Sessions,  \* the streams
  Owner,     \* the user of each stream
  Resps,     \* the messages, numbered in the order the server received them
  NoDoc      \* "not stored"

VARIABLES
  msgs,      \* message -> its document: at least the fields src and to
  out        \* what each stream has taken, in order

mailVars == <<msgs, out>>

Position(s, via, m) ==
  {i \in 1 .. Len(out[s]) : out[s][i] = [via |-> via, resp |-> m]}

\* Took(s, via, m): stream s has taken message m as an "ack" or from the "hub".
Took(s, via, m) == Position(s, via, m) # {}

Deliver(s, via, m) ==
  out' = [out EXCEPT ![s] = Append(@, [via |-> via, resp |-> m])]

MailInit ==
  /\ msgs = [m \in Resps |-> NoDoc]
  /\ \A s \in Sessions : out[s] = <<>>

\* A document is written once and never changed.
Save(m) ==
  /\ msgs[m] = NoDoc
  /\ msgs'[m] # NoDoc
  /\ \A n \in Resps \ {m} : msgs'[n] = msgs[n]
  /\ UNCHANGED out

\* The sender's stream takes the acknowledgement, once, in sending order.
Ack(s, m) ==
  /\ msgs[m] # NoDoc
  /\ msgs[m].src = s
  /\ \A n \in Resps : Took(s, "ack", n) => n < m
  /\ Deliver(s, "ack", m)
  /\ UNCHANGED msgs

\* A stream of the recipient takes an acknowledged message, after the earlier
\* ones of the same sender's stream and never again.
Push(s, m) ==
  /\ msgs[m] # NoDoc
  /\ msgs[m].to = Owner[s]
  /\ Took(msgs[m].src, "ack", m)
  /\ \A n \in Resps :
       Took(s, "hub", n) /\ msgs[n].src = msgs[m].src => n < m
  /\ Deliver(s, "hub", m)
  /\ UNCHANGED msgs

MailNext ==
  \E m \in Resps :
    \/ Save(m)
    \/ \E s \in Sessions : Ack(s, m) \/ Push(s, m)

MailSpec == MailInit /\ [][MailNext]_mailVars
===============================================================================
