----------------------------- MODULE LlvmControl -----------------------------
(***************************************************************************)
(* What the control flow of a function in LLVM bitcode means, one basic    *)
(* block at a time: the promise the emitted JVM code has to keep           *)
(* (ControlFlow).                                                          *)
(*                                                                         *)
(* A program is a record                                                   *)
(*   order   the blocks in the order of the function, the entry first      *)
(*   blocks  for each of them its phi instructions, its body and its       *)
(*           terminator                                                    *)
(* A phi has an operand for every predecessor. An operand is a record of   *)
(* its kind and what it is of: a constant, a value of the function, or     *)
(* undef. Values are single bits.                                          *)
(***************************************************************************)
EXTENDS Naturals, Sequences, SequencesExt

CONSTANTS Programs,   \* the functions considered
          Values,     \* the names of arguments and of instructions
          Args,       \* the arguments among them
          Returned    \* the function has returned

Bits == {0, 1}

VARIABLES program,   \* the function that runs
          block,     \* the block control is at the start of, or Returned
          values     \* the values of arguments and instructions

\* The values an operand may have; undef may have any.
Eval(o, env) == CASE o.kind = "const" -> {o.of}
                  [] o.kind = "value" -> {env[o.of]}
                  [] o.kind = "undef" -> Bits

\* An operand that is not undef has one.
ValueOf(o, env) == CHOOSE n \in Eval(o, env) : TRUE

Result(inst, env) ==
  LET arg(i) == ValueOf(inst.args[i], env) IN
  CASE inst.op = "not"    -> 1 - arg(1)
    [] inst.op = "select" -> IF arg(1) = 1 THEN arg(2) ELSE arg(3)

\* The values at the end of a block entered with env.
AfterBody(body, env) ==
  FoldLeft(LAMBDA e, inst : [e EXCEPT ![inst.dest] = Result(inst, e)], env, body)

Target(term, env) ==
  CASE term.op = "br"     -> term.dests[1]
    [] term.op = "condbr" -> IF ValueOf(term.cond, env) = 1 THEN term.dests[1] ELSE term.dests[2]
    [] term.op = "switch" -> LET n == ValueOf(term.cond, env) IN
                             IF n \in DOMAIN term.cases THEN term.cases[n] ELSE term.default

\* All the phi instructions of a block read their operands at once, with the
\* values of the end of the predecessor src.
AfterPhis(phis, src, env) ==
  {e \in [Values -> Bits] :
    \A v \in Values :
      IF \E i \in DOMAIN phis : phis[i].dest = v
        THEN \E i \in DOMAIN phis :
               phis[i].dest = v /\ e[v] \in Eval(phis[i].from[src], env)
        ELSE e[v] = env[v]}

\* The local variables of instructions start at 0, arguments are arbitrary.
InitialValues == {e \in [Values -> Bits] : \A v \in Values \ Args : e[v] = 0}

Init == /\ program \in Programs
        /\ block = Head(program.order)
        /\ values \in InitialValues

\* The block runs to its end and control moves along one edge.
RunBlock ==
  /\ block # Returned
  /\ LET b   == program.blocks[block]
         end == AfterBody(b.body, values)
     IN  IF b.term.op = "ret"
           THEN block' = Returned /\ values' = end
           ELSE LET dest == Target(b.term, end) IN
                /\ block'  = dest
                /\ values' \in AfterPhis(program.blocks[dest].phis, block, end)
  /\ UNCHANGED program

Next == RunBlock

Spec == Init /\ [][Next]_<<program, block, values>>
=============================================================================
