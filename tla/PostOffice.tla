------------------------------- MODULE PostOffice -------------------------------
(***************************************************************************)
(* What the messenger promises its users, without its processes, threads,  *)
(* boxes and streams.  A message is submitted, and accepted or refused;    *)
(* while it waits it may be shown on one screen of its recipient, as it    *)
(* was submitted and not before an older one of its sender.  It is lost    *)
(* only if something has disturbed its recipient.                          *)
(***************************************************************************)
EXTENDS Naturals, Sequences

CONSTANTS Msgs, Users, To,
          Sender, Number,     \* Sender[m], and m's number among its sender's messages
          Screens,            \* where messages are shown
          Texts, NoText

VARIABLES stage,      \* stage[m]: "unsent", "sent", "refused", "waiting", "shown" or "lost"
          content,    \* content[m]: the text it was submitted with
          screen,     \* screen[s]: what s has shown, message and text
          disturbed   \* the users to whom delivery is no longer promised

post == <<stage, content, screen, disturbed>>

POInit ==
  /\ stage = [m \in Msgs |-> "unsent"]
  /\ content = [m \in Msgs |-> NoText]
  /\ screen = [s \in Screens |-> <<>>]
  /\ disturbed = {}

Becomes(m, from, to) == stage[m] = from /\ stage' = [stage EXCEPT ![m] = to]

Submit(m) ==
  /\ Becomes(m, "unsent", "sent")
  /\ \E t \in Texts : content' = [content EXCEPT ![m] = t]
  /\ UNCHANGED <<screen, disturbed>>

Accept(m) == Becomes(m, "sent", "waiting") /\ UNCHANGED <<content, screen, disturbed>>

Refuse(m) == Becomes(m, "sent", "refused") /\ UNCHANGED <<content, screen, disturbed>>

Shown(s) == {screen[s][i].msg : i \in DOMAIN screen[s]}

Show(m, s) ==
  /\ Becomes(m, "waiting", "shown")
  /\ \A n \in Shown(s) : To[n] = To[m] /\ (Sender[n] = Sender[m] => Number[n] < Number[m])
  /\ screen' = [screen EXCEPT ![s] = Append(@, [msg |-> m, text |-> content[m]])]
  /\ UNCHANGED <<content, disturbed>>

\* From now on U are disturbed; mail of theirs may be gone, several messages at once.
Disturb(U, M) ==
  /\ disturbed \subseteq U
  /\ \A m \in M : stage[m] = "waiting" /\ To[m] \in U
  /\ stage' = [m \in Msgs |-> IF m \in M THEN "lost" ELSE stage[m]]
  /\ disturbed' = U
  /\ UNCHANGED <<content, screen>>

PONext ==
  \/ \E m \in Msgs : Submit(m) \/ Accept(m) \/ Refuse(m) \/ \E s \in Screens : Show(m, s)
  \/ \E U \in SUBSET Users, M \in SUBSET Msgs : Disturb(U, M)

POSpec == POInit /\ [][PONext]_post
================================================================================
