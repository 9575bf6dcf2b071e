------------------------------ MODULE ParabixLlvm ------------------------------
(***************************************************************************)
(* parabix::parabix_llvm with codegen::ParabixCompiler: the pattern is     *)
(* compiled into one function, run, which is called on every block.  The   *)
(* body of run is one fragment per item; a step executes one fragment.     *)
(***************************************************************************)
EXTENDS ParabixBlocks, OperationBuilder

VARIABLE runFnPtr    \* the address of run is known

llvmVars == <<vars, runFnPtr>>

LlvmInit ==
    /\ Init
    /\ pc = "compile"
    /\ runFnPtr = FALSE

\* The module goes to the JIT; the lookup of run may fail, which leaves a
\* null pointer behind and is not reported here.
Compile ==
    /\ pc = "compile"
    /\ runFnPtr' \in BOOLEAN
    /\ pc' = "block"
    /\ UNCHANGED <<arguments, i, item, words, matched>>

\* jit.addModule returns an error and compile throws.
CompileThrows ==
    /\ pc = "compile"
    /\ pc' = "failed"
    /\ UNCHANGED <<arguments, i, item, words, matched, runFnPtr>>

\* The block is transposed and masked, and run is called.
CallRun ==
    /\ pc = "block"
    /\ i < input_size
    /\ runFnPtr
    /\ item' = 0
    /\ pc' = "item"
    /\ UNCHANGED <<arguments, i, words, matched, runFnPtr>>

\* Mutant: run returns when there is nothing to call.
RunIgnored ==
    /\ pc = "block"
    /\ i < input_size
    /\ ~ runFnPtr
    /\ UNCHANGED llvmVars

\* "the run method is not initialized."
RunThrows ==
    /\ pc = "block"
    /\ i < input_size
    /\ ~ runFnPtr
    /\ pc' = "failed"
    /\ UNCHANGED <<arguments, i, item, words, matched, runFnPtr>>

\* Mutant: the first class is not stored as the first marker.
RunFragmentNoFirstMarker ==
    /\ pc = "item"
    /\ item < cc_size
    /\ LET cc_value == Execute(Basis(i), cc_list[item].class)
           next == Codegen(cc_list[item].star, cc_value, marker[item], carry[item])
       IN  /\ cc' = [cc EXCEPT ![item] = cc_value]
           /\ marker' = [marker EXCEPT ![item + 1] = next.marker]
           /\ carry' = [carry EXCEPT ![item] = next.carry]
    /\ item' = item + 1
    /\ UNCHANGED <<arguments, i, matched, pc, runFnPtr>>

\* The fragment of one item: its class word is computed and stored, the
\* first one also as the first marker; then the marker and the carry are
\* loaded, the operation applied and its results stored.
RunFragment ==
    /\ pc = "item"
    /\ item < cc_size
    /\ LET cc_value == Execute(Basis(i), cc_list[item].class)
           marker_value == IF item = 0 THEN cc_value ELSE marker[item]
           next == Codegen(cc_list[item].star, cc_value, marker_value, carry[item])
       IN  /\ cc' = [cc EXCEPT ![item] = cc_value]
           /\ marker' = [marker EXCEPT ![item] = marker_value, ![item + 1] = next.marker]
           /\ carry' = [carry EXCEPT ![item] = next.carry]
    /\ item' = item + 1
    /\ UNCHANGED <<arguments, i, matched, pc, runFnPtr>>

\* The steps that both scanners have.
Shared == (AbortOverread \/ CountBlock \/ Return) /\ UNCHANGED runFnPtr

LlvmStep ==
    \/ Compile
    \/ CompileThrows
    \/ CallRun
    \/ RunThrows
    \/ RunFragment
    \/ Shared

LlvmNext == LlvmStep \/ (Terminated /\ UNCHANGED runFnPtr)

\* A call runs by itself until it returns or fails.
LlvmSpec == LlvmInit /\ [][LlvmNext]_llvmVars /\ WF_llvmVars(LlvmNext)
================================================================================
