-------------------------------- MODULE MCLab --------------------------------
(***************************************************************************)
(* Hands outside the table: a draft in the scenario editor, the exchange   *)
(* of finished hands as PHH texts, and a hand of the table opened in Hand  *)
(* Lab.  Each is a part of its own: a behaviour is one of a single part,   *)
(* and what belongs to the others stays as it is.                          *)
(*                                                                         *)
(* A seed is an order of the seats: who has the better hand.               *)
(***************************************************************************)
EXTENDS Integers, Sequences

CONSTANTS NoSeat, Nothing, NotOurs

VARIABLES part,
    facts, table, seed,                    \* a hand
    known, order, board, history, reply,   \* in the editor
    tape, import,                          \* as a text
    lab, answer                            \* in Hand Lab

\* every order of two seats, and of three any may have the best hand or the worst
TwoOrders == {[s \in {0, 1} |-> IF s = best THEN 2 ELSE 1] : best \in {0, 1}}
ThreeOrders == {[s \in 0 .. 2 |-> 1 + ((s + k) % 3)] : k \in 0 .. 2}
Itself(S) == [o \in S |-> o]

Draft == INSTANCE HandDraft WITH
    NSeats <- 2, SmallBlind <- 1, BigBlind <- 2, Seeds <- TwoOrders, Strength <- Itself(TwoOrders),
    StackSizes <- {2, 4}, Buttons <- {0}, Amounts <- {0, 1, 2, 4}, Boards <- {1, 3}, MaxEvents <- 4
Phh == INSTANCE PhhExchange WITH
    NSeats <- 2, SmallBlind <- 1, BigBlind <- 2, Seeds <- TwoOrders, Strength <- Itself(TwoOrders),
    StackSizes <- {4, 6}, Buttons <- {0, 1}, Amounts <- {0, 1, 2, 3, 4, 6}
\* a policy shows a spectator nothing, a player one seat, a reviewer all of them
HeadsUp == INSTANCE HandLab WITH
    NSeats <- 2, SmallBlind <- 1, BigBlind <- 2, Seeds <- TwoOrders, Strength <- Itself(TwoOrders),
    StackSizes <- {3, 4}, Buttons <- {0}, Amounts <- 0 .. 4, Reveals <- {{}, {0, 1}}
Ring == INSTANCE HandLab WITH
    NSeats <- 3, SmallBlind <- 1, BigBlind <- 2, Seeds <- ThreeOrders, Strength <- Itself(ThreeOrders),
    StackSizes <- {2}, Buttons <- {0}, Amounts <- 0 .. 2, Reveals <- {{}, {0}, {0, 1}, {0, 1, 2}}

handVars == <<facts, table, seed>>
draftVars == <<known, order, board, history, reply>>
labVars == <<lab, answer>>
vars == <<part, handVars, draftVars, tape, import, labVars>>

NoDraft == known = {} /\ order = <<>> /\ board = 0 /\ history = <<>> /\ reply = <<>>
NoLab == lab = <<>> /\ answer = <<>>

Init ==
    \/ /\ part = "draft" /\ Draft!Init /\ tape = <<>> /\ import = <<>> /\ NoLab
       /\ facts.stacks[0] = 4   \* bound: the button is not the shorter stack,
       /\ known # {1}           \* nor the only one whose cards are hidden
    \/ part = "phh" /\ Phh!PhhInit /\ NoDraft /\ NoLab
    \/ part = "heads-up" /\ HeadsUp!LabInit /\ NoDraft /\ import = <<>>
    \/ part = "ring" /\ Ring!LabInit /\ NoDraft /\ import = <<>>

Next ==
    /\ \/ part = "draft" /\ Draft!Next /\ UNCHANGED <<tape, import, labVars>>
       \/ part = "phh" /\ Phh!PhhNext /\ UNCHANGED <<draftVars, labVars>>
       \/ /\ part = "heads-up" /\ HeadsUp!LabNext /\ UNCHANGED <<draftVars, import>>
          /\ lab'.error # "unopened" => lab'.hero = 0   \* bound: with two seats either is a hero
       \/ part = "ring" /\ Ring!LabNext /\ UNCHANGED <<draftVars, import>>
    /\ UNCHANGED part

Spec == Init /\ [][Next]_vars
-----------------------------------------------------------------------------
\* HandDraft: what the editor accepts is paid, shown and offered by the rules.
DraftSound == part = "draft" => Draft!DraftSound

\* PhhExchange: a hand that comes back is the hand that went out.
ArchiveSound == part = "phh" => Phh!ArchiveSound

\* HandLab: the table's hand, shown to whoever may see it.
LabSound ==
    /\ part = "heads-up" => HeadsUp!LabSound
    /\ part = "ring" => Ring!LabSound

\* HandDraft, HandLab: every accepted event is a step of the rules, and an
\* action sent from Hand Lab does at the table what it did on the screen.
StepsFollow ==
    /\ [][part = "draft" => Draft!Rules!PlayNext]_handVars
    /\ [][/\ part = "heads-up" => HeadsUp!SentAsShown
          /\ part = "ring" => Ring!SentAsShown]_<<handVars, tape, labVars>>
=============================================================================
