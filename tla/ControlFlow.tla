----------------------------- MODULE ControlFlow -----------------------------
(***************************************************************************)
(* The JVM code emitted for the control flow of a function, and the run of *)
(* it: lib/lljvm-native/branch.cc, with the part of block.cc that emits a  *)
(* basic block.                                                            *)
(*                                                                         *)
(* Emit writes the code of a program of LlvmControl the way the printers   *)
(* do; the actions are the JVM instructions it consists of.  Every value   *)
(* of the function has a local variable, and every phi instruction is a    *)
(* store that its predecessors make before they jump.                      *)
(*                                                                         *)
(* entered is a history variable for the refinement: the block whose label *)
(* was passed last and the local variables at that moment.                 *)
(***************************************************************************)
EXTENDS Naturals, Sequences, SequencesExt

CONSTANTS Programs, Values, Args, Returned

VARIABLES program,  \* the function that is translated
          code,     \* the code emitted for it
          pc,       \* the instruction that comes next, or 0
          stack,    \* the operand stack
          locals,   \* the local variables
          entered   \* history: the last block entered, and with which locals

vars == <<program, code, pc, stack, locals, entered>>

Llvm == INSTANCE LlvmControl WITH block <- entered.block, values <- entered.values

Op(op, arg) == [op |-> op, arg |-> arg]

\* The operands of LlvmControl.
Constant(n) == [kind |-> "const", of |-> n]
Value(v)    == [kind |-> "value", of |-> v]
Undef       == [kind |-> "undef", of |-> 0]

\* getLabelName(block), labelname + "$phi" + getUID(), "select" + getUID().
BlockLabel(b)         == <<b, "block">>
PhiLabel(b, src)      == <<b, src>>
SelectLabel(inst, ab) == <<inst.dest, ab>>

-----------------------------------------------------------------------------
(* The printers. *)

Load(o)  == <<Op("load", o)>>
Store(v) == <<Op("store", v)>>

\* An operand that is undef leaves the phi as it is.
IsUndef(phi, src) == phi.from[src].kind = "undef"

\* Mutant: all the operands are loaded, then stored in the same order.
CopyInQueueOrder(p, src, dest) ==
  LET phis    == p.blocks[dest].phis
      defined == {i \in DOMAIN phis : ~IsUndef(phis[i], src)}
  IN  FlattenSeq([i \in DOMAIN phis |-> IF i \in defined THEN Load(phis[i].from[src]) ELSE <<>>])
        \o FlattenSeq([i \in DOMAIN phis |-> IF i \in defined THEN Store(phis[i].dest) ELSE <<>>])

CopyPhi(phi, src) ==
  IF IsUndef(phi, src) THEN <<>> ELSE Load(phi.from[src]) \o Store(phi.dest)

printPHICopy(p, src, dest) ==
  LET phis == p.blocks[dest].phis IN
  FlattenSeq([i \in DOMAIN phis |-> CopyPhi(phis[i], src)])

Jump(p, src, dest) == printPHICopy(p, src, dest) \o <<Op("goto", BlockLabel(dest))>>

\* Mutant: the condition is left behind when both successors are one.
printCondBranchKeeping(p, src, trueBlock, falseBlock) ==
  IF trueBlock = falseBlock
    THEN Jump(p, src, trueBlock)
    ELSE <<Op("ifne", BlockLabel(trueBlock))>> \o Jump(p, src, falseBlock)

HasPhis(p, b) == p.blocks[b].phis # <<>>

\* Mutant: the branch always goes to a copy of the phi operands.
printCondBranchToCopy(p, src, trueBlock, falseBlock) ==
  LET label == PhiLabel(trueBlock, src)
  IN  IF trueBlock = falseBlock
        THEN <<Op("pop", 0)>> \o Jump(p, src, trueBlock)
        ELSE <<Op("ifne", label)>> \o Jump(p, src, falseBlock)
               \o (IF HasPhis(p, trueBlock)
                     THEN <<Op("label", label)>> \o Jump(p, src, trueBlock)
                     ELSE <<>>)

printCondBranch(p, src, trueBlock, falseBlock) ==
  LET label == IF HasPhis(p, trueBlock) THEN PhiLabel(trueBlock, src)
                                        ELSE BlockLabel(trueBlock)
  IN  IF trueBlock = falseBlock
        THEN <<Op("pop", 0)>> \o Jump(p, src, trueBlock)
        ELSE <<Op("ifne", label)>> \o Jump(p, src, falseBlock)
               \o (IF HasPhis(p, trueBlock)
                     THEN <<Op("label", label)>> \o Jump(p, src, trueBlock)
                     ELSE <<>>)

\* The successors' phi instructions are not set.
printSwitch(term) ==
  Load(term.cond) \o
  <<Op("lookupswitch", [cases   |-> [n \in DOMAIN term.cases |-> BlockLabel(term.cases[n])],
                        default |-> BlockLabel(term.default)])>>

\* Mutant: a function without a result gets no return.
printTerminatorNoReturn(p, b) ==
  LET term == p.blocks[b].term IN
  IF term.op = "br" THEN Jump(p, b, term.dests[1]) ELSE <<>>

printTerminator(p, b) ==
  LET term == p.blocks[b].term IN
  CASE term.op = "br"     -> Jump(p, b, term.dests[1])
    [] term.op = "condbr" -> Load(term.cond) \o printCondBranch(p, b, term.dests[1], term.dests[2])
    [] term.op = "switch" -> printSwitch(term)
    [] term.op = "ret"    -> <<Op("return", 0)>>

printSelect(inst) ==
  Load(inst.args[1]) \o <<Op("ifeq", SelectLabel(inst, "a"))>> \o
  Load(inst.args[2]) \o <<Op("goto", SelectLabel(inst, "b")),
                          Op("label", SelectLabel(inst, "a"))>> \o
  Load(inst.args[3]) \o <<Op("label", SelectLabel(inst, "b"))>>

printInstruction(inst) ==
  CASE inst.op = "select" -> printSelect(inst)
    [] inst.op = "not"    -> Load(inst.args[1]) \o <<Op("not", 0)>>

\* The phi instructions of the block itself are skipped.
printBasicBlock(p, b) ==
  LET body == p.blocks[b].body IN
  <<Op("label", BlockLabel(b))>>
    \o FlattenSeq([i \in DOMAIN body |-> printInstruction(body[i]) \o Store(body[i].dest)])
    \o printTerminator(p, b)

printFunctionBody(p) ==
  FlattenSeq([i \in DOMAIN p.order |-> printBasicBlock(p, p.order[i])])

-----------------------------------------------------------------------------
(* The functions translated are well-formed, as the bitcode verifier has it *)
(* and LlvmControl describes them.  The names of the blocks are not those   *)
(* that tell the other labels apart; getUID sees to that.                   *)

IsSequence(s) == s \in Seq(ToSet(s))

Blocks(p) == ToSet(p.order)

Operands == {Constant(n) : n \in {0, 1}} \cup {Value(v) : v \in Values} \cup {Undef}

Successors(term) ==
  CASE term.op = "br"     -> {term.dests[1]}
    [] term.op = "condbr" -> {term.dests[1], term.dests[2]}
    [] term.op = "switch" -> {term.cases[n] : n \in DOMAIN term.cases} \cup {term.default}
    [] term.op = "ret"    -> {}

WellFormedInstruction(inst) ==
  /\ inst.dest \in Values
  /\ \/ inst.op = "not" /\ inst.args[1] \in Operands
     \/ inst.op = "select" /\ \A i \in 1 .. 3 : inst.args[i] \in Operands

WellFormedTerminator(p, term) ==
  /\ term.op \in {"br", "condbr", "switch", "ret"}
  /\ term.op \in {"condbr", "switch"} => term.cond \in Operands
  /\ Successors(term) \subseteq Blocks(p)

\* A phi has an operand for every predecessor of its block.
WellFormedPhi(p, b, phi) ==
  /\ phi.dest \in Values
  /\ \A src \in Blocks(p) : b \in Successors(p.blocks[src].term) =>
       src \in DOMAIN phi.from /\ phi.from[src] \in Operands

\* Every value is computed by one instruction.
SingleAssignment(p) ==
  \A b, c \in Blocks(p) :
    \A i \in DOMAIN p.blocks[b].body, j \in DOMAIN p.blocks[c].body :
      p.blocks[b].body[i].dest = p.blocks[c].body[j].dest => b = c /\ i = j

WellFormed(p) ==
  /\ IsSequence(p.order) /\ p.order # <<>>
  /\ Blocks(p) \cap {"block", "a", "b", Returned} = {}
  /\ \A b \in Blocks(p) :
       /\ IsSequence(p.blocks[b].phis)
       /\ \A i \in DOMAIN p.blocks[b].phis : WellFormedPhi(p, b, p.blocks[b].phis[i])
       /\ IsSequence(p.blocks[b].body)
       /\ \A i \in DOMAIN p.blocks[b].body : WellFormedInstruction(p.blocks[b].body[i])
       /\ WellFormedTerminator(p, p.blocks[b].term)
  /\ SingleAssignment(p)

ASSUME ProgramsAssumption == \A p \in Programs : WellFormed(p)

-----------------------------------------------------------------------------
(* The run of the code. *)

Init == /\ program \in Programs
        /\ code    = printFunctionBody(program)
        /\ pc      = 1
        /\ stack   = <<>>
        /\ locals  \in Llvm!InitialValues
        /\ entered = [block |-> Head(program.order), values |-> locals]

At(op) == pc # 0 /\ code[pc].op = op
Arg    == code[pc].arg
Top    == Last(stack)
Popped == Front(stack)

\* undef is loaded as lconst_0, whatever its type: a long, of two words.
Long         == 2
Pushed(o, e) == IF o.kind = "undef" THEN Long ELSE Llvm!ValueOf(o, e)

\* The instruction has its operand, and that is an int; the verifier rejects a
\* class where it is not.
TakesInt == stack # <<>> /\ Top \in {0, 1}

\* The instruction a label stands before.
Position(label) == CHOOSE i \in DOMAIN code : code[i] = Op("label", label)

Continue == pc' = pc + 1

PassLabel ==
  /\ At("label")
  /\ Continue
  /\ entered' = IF \E b \in Blocks(program) : Arg = BlockLabel(b)
                  THEN [block |-> Arg[1], values |-> locals]
                  ELSE entered
  /\ UNCHANGED <<stack, locals>>

LoadOperand ==
  /\ At("load")
  /\ Continue
  /\ stack' = Append(stack, Pushed(Arg, locals))
  /\ UNCHANGED <<locals, entered>>

StoreValue ==
  /\ At("store") /\ TakesInt
  /\ Continue
  /\ locals' = [locals EXCEPT ![Arg] = Top]
  /\ stack'  = Popped
  /\ UNCHANGED entered

Not ==
  /\ At("not") /\ TakesInt
  /\ Continue
  /\ stack' = Append(Popped, 1 - Top)
  /\ UNCHANGED <<locals, entered>>

Pop ==
  /\ At("pop") /\ TakesInt
  /\ Continue
  /\ stack' = Popped
  /\ UNCHANGED <<locals, entered>>

Goto ==
  /\ At("goto")
  /\ pc' = Position(Arg)
  /\ UNCHANGED <<stack, locals, entered>>

\* ifne jumps on 1, ifeq on 0.
JumpIf(op, n) ==
  /\ At(op) /\ TakesInt
  /\ pc'    = IF Top = n THEN Position(Arg) ELSE pc + 1
  /\ stack' = Popped
  /\ UNCHANGED <<locals, entered>>

SwitchTarget == IF Top \in DOMAIN Arg.cases THEN Arg.cases[Top] ELSE Arg.default

LookupSwitch ==
  /\ At("lookupswitch") /\ TakesInt
  /\ pc'    = Position(SwitchTarget)
  /\ stack' = Popped
  /\ UNCHANGED <<locals, entered>>

Return ==
  /\ At("return")
  /\ pc'      = 0
  /\ entered' = [block |-> Returned, values |-> locals]
  /\ UNCHANGED <<stack, locals>>

Step == \/ PassLabel \/ LoadOperand \/ StoreValue \/ Not \/ Pop
        \/ Goto \/ JumpIf("ifne", 1) \/ JumpIf("ifeq", 0) \/ LookupSwitch \/ Return

Terminated == pc = 0 /\ UNCHANGED vars

Next == \/ Step /\ UNCHANGED <<program, code>>
        \/ Terminated

Spec == Init /\ [][Next]_vars

-----------------------------------------------------------------------------
(* Properties. *)

\* The state has its type.
TypeOK ==
  /\ pc \in 0 .. Len(code)
  /\ stack \in Seq({0, 1, Long})
  /\ locals \in [Values -> {0, 1}]
  /\ entered.block \in Blocks(program) \cup {Returned}

\* branch.cc:48-121, and what the JVM verifier demands where paths merge:
\* whichever jump leads to it, a block starts with an empty operand stack, and
\* so does the return.
BlocksStartWithEmptyStack ==
  /\ At("label") /\ (\E b \in Blocks(program) : Arg = BlockLabel(b)) => stack = <<>>
  /\ pc = 0 => stack = <<>>

TakeOperand == {"store", "not", "pop", "ifne", "ifeq", "lookupswitch"}
Jumps       == {"goto", "ifne", "ifeq"}

IsLabel(l) == Op("label", l) \in ToSet(code)

\* branch.cc:48-121, the rest of what the JVM verifier demands: no instruction
\* lacks its operand or finds a long in its place, and every jump has a label of
\* the code to go to.
InstructionsCanRun ==
  /\ (\E op \in TakeOperand : At(op)) => TakesInt
  /\ (\E op \in Jumps : At(op)) => IsLabel(Arg)
  /\ At("lookupswitch") => IsLabel(SwitchTarget)

\* const.cc:124-126, printPtrLoad(0) for an undef operand: the code is right only
\* where undef is an operand of phi instructions alone, which printPHICopy skips.
UndefOnlyInPhis(p) ==
  \A b \in Blocks(p) : LET block == p.blocks[b] IN
    /\ \A i \in DOMAIN block.body : LET inst == block.body[i] IN
         /\ inst.args[1] # Undef
         /\ inst.op = "select" => inst.args[2] # Undef /\ inst.args[3] # Undef
    /\ block.term.op \in {"condbr", "switch"} => block.term.cond # Undef

\* No phi instruction reads one that stands before it in the same block.
NoPhiReadsEarlierPhi(p) ==
  \A b \in Blocks(p) : LET phis == p.blocks[b].phis IN
    \A i, j \in DOMAIN phis : i < j =>
      \A src \in DOMAIN phis[j].from : phis[j].from[src] # Value(phis[i].dest)

\* The comment of printSwitchInstruction: the lowering pass leaves no switch.
NoSwitchIntoPhis(p) ==
  \A b \in Blocks(p) : LET term == p.blocks[b].term IN
    term.op = "switch" =>
      ~\E dest \in {term.cases[n] : n \in DOMAIN term.cases} \cup {term.default} : HasPhis(p, dest)

\* branch.cc:31-103, block.cc:27-64: the emitted code does what the bitcode
\* means; from block to block every value of the function is the one LLVM
\* computes, phi instructions included, for every path through the function.
Refinement == Llvm!Spec
=============================================================================
