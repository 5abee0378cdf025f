-------------------------------- MODULE MsgQueue -------------------------------
(***************************************************************************)
(* What the default protocol promises of one connection, whatever becomes  *)
(* of the bytes: texts are queued as the user types them and delivered in  *)
(* that order, each once and whole, until the server closes the socket.    *)
(* Once a call has given up, or a text was too long for its frame, only    *)
(* this is left: what was delivered stays as it is, and whatever comes     *)
(* after it comes one at a time.                                           *)
(***************************************************************************)
EXTENDS Integers, Sequences

CONSTANT Texts  \* what the user may type

VARIABLES
  queue,      \* texts typed and not yet delivered
  delivered,  \* what the server has received
  link        \* open, closed by the server, or broken

queueVars == <<queue, delivered, link>>

QueueInit ==
  /\ queue = <<>>
  /\ delivered = <<>>
  /\ link = "open"

(* The client does not notice yet that the server has closed.              *)
Send(text) ==
  /\ link \in {"open", "closed"}
  /\ queue' = Append(queue, text)
  /\ UNCHANGED <<delivered, link>>

Deliver ==
  /\ link = "open"
  /\ queue # <<>>
  /\ delivered' = Append(delivered, Head(queue))
  /\ queue' = Tail(queue)
  /\ UNCHANGED link

Shut ==
  /\ link = "open"
  /\ link' = "closed"
  /\ UNCHANGED <<queue, delivered>>

(* Whatever buf holds is taken for a text.                                 *)
Stray ==
  /\ Len(delivered') = Len(delivered) + 1
  /\ SubSeq(delivered', 1, Len(delivered)) = delivered

(* The frames are lost track of, perhaps with a text that is not one.      *)
Break ==
  /\ link \in {"open", "closed"}
  /\ link' = "broken"
  /\ queue' = <<>>
  /\ Stray \/ UNCHANGED delivered

Babble ==
  /\ link = "broken"
  /\ Stray
  /\ UNCHANGED <<queue, link>>

QueueNext ==
  \/ \E text \in Texts : Send(text)
  \/ Deliver \/ Shut \/ Break \/ Babble

QueueSpec == QueueInit /\ [][QueueNext]_queueVars
=============================================================================
