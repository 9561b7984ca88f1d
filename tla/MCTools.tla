------------------------------ MODULE MCTools ------------------------------
(* The programs of the verification harness on small instances:             *)
(*  - mutation: two workers, mutations caught by programs on the simulator, *)
(*    by two riscv-formal checks at once and by a cocotb test that two of    *)
(*    them declare, and one without a catcher;                              *)
(*  - formal: two invocations of the riscv-formal runner, the whole set and *)
(*    a worker of the mutation run that asks for one check, which may have  *)
(*    been renamed since;                                                   *)
(*  - regress: a regression with one test of each kind and the self-check;  *)
(*  - random: two pool registers, eight bytes of scratch, and targets at    *)
(*    the closest distance drawn and one that falls among the next padding. *)
EXTENDS Tools

MCManifest == <<"m1", "m2", "m3">>
MCCatchers == [m1 |-> <<"rvfi_a", "decode">>, m2 |-> <<"raw", "branch", "rvfi_b", "decode">>, m3 |-> <<>>]
\* Two mutations that declare the same cocotb test.
TwoManifest == <<"m1", "m2">>
TwoCatchers == [m1 |-> <<"decode">>, m2 |-> <<"decode">>]

MCCoreName == [full |-> "rvntt", worker |-> "mut_m_insn_add"]
MCOnly == [full |-> {{}}, worker |-> {{"insn_add"}, {"insn_old"}}]

MCTests == <<"verilator_lint", "cocotb_decode", "riscof", "formal_alu", "harness_detects_failure">>
MCKindOf == [verilator_lint |-> "lint", cocotb_decode |-> "cocotb", riscof |-> "riscof",
             formal_alu |-> "formal", harness_detects_failure |-> "self"]
MCItems == [verilator_lint |-> {"file"}, cocotb_decode |-> {"case"},
            riscof |-> {"add-01", "clmul-01"}, formal_alu |-> {"property"},
            harness_detects_failure |-> {}]

MCPool == <<5, 6>>
MCSourceSets == {{5, 6}}
MCKnobs == {<<"none", "none">>, <<"some", "some">>}
=============================================================================
