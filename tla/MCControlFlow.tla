---------------------------- MODULE MCControlFlow ----------------------------
(* Functions of three blocks: an entry, a block that may loop, an exit. *)
EXTENDS ControlFlow

MCValues == {"a", "x", "y", "n", "r"}
MCArgs   == {"a"}

C(n) == Constant(n)
V(v) == Value(v)

Phi(dest, operands) == [dest |-> dest, from |-> operands]

Bodies == {<<[op |-> "not", dest |-> "n", args |-> <<V("x")>>]>>,
           <<[op |-> "select", dest |-> "n", args |-> <<V("y"), V("x"), C(1)>>]>>,
           <<[op |-> "select", dest |-> "n", args |-> <<V("y"), Undef, V("x")>>]>>}

Br(dest)               == [op |-> "br", dests |-> <<dest>>]
CondBr(cond, yes, no)  == [op |-> "condbr", cond |-> cond, dests |-> <<yes, no>>]
Switch(cond, on, other) == [op |-> "switch", cond |-> cond, cases |-> (0 :> on), default |-> other]

EntryTerms == {Br("loop"), CondBr(V("a"), "loop", "exit"), CondBr(V("a"), "exit", "loop")}

LoopTerms ==
  {CondBr(V("n"), "loop", "exit"), CondBr(V("y"), "exit", "loop"),
   CondBr(V("x"), "exit", "exit"), CondBr(Undef, "loop", "exit"), Br("exit"), Switch(V("n"), "exit", "exit")}

LoopPhis ==
  {<<Phi("x", [entry |-> V("a"), loop |-> ox]), Phi("y", [entry |-> C(0), loop |-> oy])>> :
     ox \in {C(0), V("x"), V("y"), V("n"), Undef}, oy \in {C(1), V("x"), V("n")}}

ExitPhis == {<<>>} \cup {<<Phi("r", [entry |-> C(1), loop |-> o])>> : o \in {V("x"), V("n")}}

Functions ==
  {[order  |-> <<"entry", "loop", "exit">>,
    blocks |-> [entry |-> [phis |-> <<>>, body |-> <<>>, term |-> et],
                loop  |-> [phis |-> lp, body |-> body, term |-> lt],
                exit  |-> [phis |-> ep, body |-> <<>>, term |-> [op |-> "ret"]]]] :
     et \in EntryTerms, lp \in LoopPhis, body \in Bodies, lt \in LoopTerms, ep \in ExitPhis}

\* The functions whose control flow the printers are made for.
Ordinary ==
  {p \in Functions : UndefOnlyInPhis(p) /\ NoPhiReadsEarlierPhi(p) /\ NoSwitchIntoPhis(p)}
=============================================================================
