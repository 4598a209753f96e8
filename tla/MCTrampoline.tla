---------------------------- MODULE MCTrampoline ----------------------------
(* Trampolines of every ABI, called by two threads and from one another. *)
EXTENDS Trampoline, TLC, FiniteSets

MCArch == {"systemv", "win_gas", "win_masm", "aarch64", "arm", "i386"}
MCFloating == {"systemv", "win_gas", "win_masm"}
TrampolineSymmetry == Permutations(Thread) \union Permutations(Stub) \union Permutations(Page)
=============================================================================
