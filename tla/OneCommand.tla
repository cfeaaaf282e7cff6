---------------------------- MODULE OneCommand ------------------------------
(***************************************************************************)
(* What HwiSession is to its callers and its link: "A connected device:     *)
(* one command at a time, over one [Link]" (HwiSession.kt:24).  At most one *)
(* command runs, it begins only in an open session, it keeps the passphrase *)
(* choice it began with, the link is in its hands alone, and the choice of  *)
(* the next one changes only between commands, or when the session is      *)
(* closed for good and forgets it.  A command about an account waits for    *)
(* the caller to have chosen, be it no passphrase.                         *)
(***************************************************************************)
CONSTANTS Tasks, Choices, NoChoice
VARIABLES open,     \* the session was not disconnected
          choice,   \* what the next command would run with
          asked,    \* the choice was made
          running,  \* the command that runs, with its own choice
          talking   \* who has the link in an exchange

Init ==
  /\ open = TRUE /\ choice = NoChoice /\ asked = FALSE
  /\ running = {} /\ talking = {}

Begin(p) ==
  /\ open /\ running = {}
  /\ \E account \in BOOLEAN :
       /\ account => asked
       /\ running' = {[task |-> p, choice |-> choice, account |-> account]}
  /\ UNCHANGED <<open, choice, asked, talking>>

Talk(p) ==
  /\ \E job \in running : job.task = p
  /\ talking = {} /\ talking' = {p}
  /\ UNCHANGED <<open, choice, asked, running>>

(* The device answers, the transport fails, or the command stops waiting.  *)
Silence ==
  /\ talking' = {}
  /\ UNCHANGED <<open, choice, asked, running>>

(* A command is not over while its exchange is under way.                  *)
Finish ==
  /\ talking = {} /\ running' = {}
  /\ UNCHANGED <<open, choice, asked, talking>>

Choose(c) ==
  /\ open /\ running = {}
  /\ choice' = c /\ asked' = TRUE
  /\ UNCHANGED <<open, running, talking>>

(* At any moment: a running command is left to finish.                     *)
Disconnect ==
  /\ open' = FALSE
  /\ UNCHANGED <<choice, asked, running, talking>>

Forget ==
  /\ ~open /\ choice' = NoChoice
  /\ UNCHANGED <<open, asked, running, talking>>

Next ==
  \/ \E p \in Tasks : Begin(p) \/ Talk(p)
  \/ \E c \in Choices : Choose(c)
  \/ Silence \/ Finish \/ Disconnect \/ Forget

Spec == Init /\ [][Next]_<<open, choice, asked, running, talking>>
=============================================================================
