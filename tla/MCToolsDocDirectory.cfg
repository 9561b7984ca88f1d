SPECIFICATION ToolsSpec
CONSTANTS
  Manifest <- TwoManifest
  Catchers <- TwoCatchers
  Exe = {"raw", "branch"}
  Formal = {"formal"}
  Cocotb = {"decode"}
  Rvfi = {"rvfi_a", "rvfi_b"}
  Soc = {"soc"}
  Jobs = 2
  Runs = {"full", "worker"}
  CoreName <- MCCoreName
  Insns = {"insn_add"}
  Others = {"liveness", "reg"}
  Only <- MCOnly
  Tests <- MCTests
  KindOf <- MCKindOf
  Items <- MCItems
  Excluded = {"clmul-01"}
  Pool <- MCPool
  BodySize = 2
  ScratchBytes = 8
  Aligns = {2}
  Dests = {5}
  SourceSets <- MCSourceSets
  TargetGaps = {3, 5}
  Knobs <- MCKnobs
INVARIANTS
  DocOwnsDirectory
CHECK_DEADLOCK FALSE
