---------------------------- MODULE PromptLedger ----------------------------
(***************************************************************************)
(* What a session promises about prompts, whichever way they are           *)
(* delivered: a prompt reaches the engine at most once and alone, with the *)
(* text its owner last saved; one that was withdrawn never reaches it; and *)
(* one that waits stays until it is taken up, edited or withdrawn.         *)
(***************************************************************************)
EXTENDS Naturals

CONSTANTS Msgs,     (* prompts, by msg_id                                  *)
          MaxEdits  (* bound: edits of one prompt                          *)

VARIABLES status,    (* what became of each prompt                         *)
          text,      (* the text saved last                                *)
          delivered, (* the text the engine was given, NoText before       *)
          writers    (* the prompts the engine is working on               *)

vars == <<status, text, delivered, writers>>

NoText == MaxEdits + 1

Init ==
  /\ status = [m \in Msgs |-> "new"]
  /\ text = [m \in Msgs |-> 0]
  /\ delivered = [m \in Msgs |-> NoText]
  /\ writers = {}

Move(m, from, to) ==
  /\ status[m] \in from
  /\ status' = [status EXCEPT ![m] = to]

(* The queue took it over.                                                 *)
Accept(m) ==
  /\ Move(m, {"new"}, "waiting")
  /\ UNCHANGED <<text, delivered, writers>>

(* It is being checked for a start: one that waited goes on waiting if the *)
(* check fails, and can be neither edited nor withdrawn meanwhile.         *)
Check(m) ==
  /\ \/ Move(m, {"new"}, "offered")
     \/ Move(m, {"waiting"}, "held")
  /\ UNCHANGED <<text, delivered, writers>>

Launch(m) ==
  /\ Move(m, {"offered", "held"}, "launched")
  /\ UNCHANGED <<text, delivered, writers>>

PutBack(m) ==
  /\ Move(m, {"held", "launched"}, "waiting")
  /\ UNCHANGED <<text, delivered, writers>>

Edit(m) ==
  /\ status[m] = "waiting"
  /\ text[m] < MaxEdits
  /\ text' = [text EXCEPT ![m] = @ + 1]
  /\ UNCHANGED <<status, delivered, writers>>

Withdraw(m) ==
  /\ Move(m, {"waiting"}, "withdrawn")
  /\ UNCHANGED <<text, delivered, writers>>

(* Another prompt takes the place of one that waits.                       *)
Replace(m, old) ==
  /\ status[m] = "new" /\ status[old] = "waiting"
  /\ status' = [status EXCEPT ![m] = "waiting", ![old] = "withdrawn"]
  /\ UNCHANGED <<text, delivered, writers>>

(* Refused with an error its sender sees, or failed as a visible turn.     *)
Refuse(m) ==
  /\ Move(m, {"new", "offered", "launched"}, "refused")
  /\ UNCHANGED <<text, delivered, writers>>

Submit(m) ==
  /\ writers = {}
  /\ Move(m, {"launched"}, "submitted")
  /\ delivered' = [delivered EXCEPT ![m] = text[m]]
  /\ writers' = {m}
  /\ UNCHANGED text

Finish ==
  /\ writers' = {}
  /\ UNCHANGED <<status, text, delivered>>

Next ==
  \/ \E m \in Msgs :
       \/ Accept(m) \/ Edit(m) \/ Withdraw(m)
       \/ Check(m) \/ Launch(m) \/ PutBack(m) \/ Refuse(m) \/ Submit(m)
       \/ \E old \in Msgs : Replace(m, old)
  \/ Finish

Spec == Init /\ [][Next]_vars
=============================================================================
