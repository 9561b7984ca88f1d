-------------------------------- MODULE Seed --------------------------------
(***************************************************************************)
(* Zkr's seed CSR (rvntt_seed) with the noise source's two synchroniser    *)
(* flops (rvntt_entropy) and the continuous health tests                   *)
(* (rvntt_entropy_health), a clock cycle per step.  In every cycle the     *)
(* source may say 0 or 1, and an instruction may read seed.  The counters  *)
(* are as wide as they need.                                               *)
(***************************************************************************)
EXTENDS Integers, Sequences, FiniteSets

CONSTANTS
  BistSamples, RepCutoff, ApWindow, ApCutoff,  \* 1024, 21, 1024, 589
  Width,               \* 16
  MaxSamples           \* bound: how many samples are taken

VARIABLES
  noise,       \* rvntt_entropy: meta_q and raw_sync_q
  health,      \* rvntt_entropy_health
  seed,        \* rvntt_seed: bist_q, buf_q (newest last), fill_q, dead_q
  log,         \* history: the samples taken,
  grew,        \* one of them on the last edge,
  emptied      \* how many of them when the buffer was last emptied

\* What rst_n clears.
NoiseReset  == [meta |-> 0, raw |-> 0]
HealthReset == [prev |-> 0, have |-> FALSE, run |-> 0, rep |-> FALSE,
                pos |-> 0, ones |-> 0, ap |-> FALSE]
SeedReset   == [bist |-> 0, buf |-> [k \in 1 .. Width |-> 0], fill |-> 0, dead |-> FALSE]

Init ==
  /\ noise = NoiseReset /\ health = HealthReset /\ seed = SeedReset
  /\ log = <<>> /\ grew = FALSE /\ emptied = 0

HealthFail == health.rep \/ health.ap

-----------------------------------------------------------------------------
(* rvntt_entropy_health, at a sample.                                      *)

OnesKept(s) == health.ones + s                                 \* fault
OnesNow(s) == (IF health.pos = 0 THEN 0 ELSE health.ones) + s
RunNext(s) == IF health.have /\ s = health.prev THEN health.run + 1 ELSE 1
AtWindowEnd == health.pos = ApWindow - 1
ApOver(s) == OnesNow(s) >= ApCutoff \/ ApWindow - OnesNow(s) >= ApCutoff

HealthEdge(s) ==
  health' = [prev |-> s, have |-> TRUE, run |-> RunNext(s),
             rep  |-> health.rep \/ RunNext(s) >= RepCutoff,
             pos  |-> (health.pos + 1) % ApWindow, ones |-> OnesNow(s),
             ap   |-> health.ap \/ (AtWindowEnd /\ ApOver(s))]

-----------------------------------------------------------------------------
(* rvntt_seed.                                                             *)

BistDone == seed.bist >= BistSamples
Full == seed.fill = Width
WantSample == ~seed.dead /\ (~BistDone \/ ~Full)
Consume(read) == read /\ BistDone /\ ~seed.dead /\ Full

Status == CASE seed.dead -> "DEAD" [] ~seed.dead /\ ~BistDone -> "BIST"
            [] ~seed.dead /\ BistDone /\ Full -> "ES16" [] OTHER -> "WAIT"

Blank(s) == Append([k \in 1 .. Width - 1 |-> 0], s)
Shifted(s) == Append(Tail(seed.buf), s)

DeadAtSample(takes) == seed.dead \/ (takes /\ HealthFail)      \* fault
DeadNext(takes) == seed.dead \/ HealthFail

SeedEdge(s, takes, read) ==
  LET fills == takes /\ ~Full
  IN  seed' = [bist |-> IF takes /\ ~BistDone THEN seed.bist + 1 ELSE seed.bist,
               dead |-> DeadNext(takes),
               fill |-> IF Consume(read) THEN (IF takes THEN 1 ELSE 0)
                        ELSE IF fills THEN seed.fill + 1 ELSE seed.fill,
               buf  |-> IF Consume(read) THEN Blank(s)
                        ELSE IF fills THEN Shifted(s) ELSE seed.buf]

-----------------------------------------------------------------------------
Clock(bit, read) ==
  LET s == noise.raw
      takes == WantSample
  IN  /\ takes => Len(log) < MaxSamples
      /\ noise' = [meta |-> bit, raw |-> noise.meta]
      /\ IF takes THEN HealthEdge(s) ELSE UNCHANGED health
      /\ SeedEdge(s, takes, read)
      /\ log' = IF takes THEN Append(log, s) ELSE log
      /\ grew' = takes
      /\ emptied' = IF Consume(read) THEN Len(log') ELSE emptied

\* rst_n falls at any time.
Reset ==
  /\ noise' = NoiseReset /\ health' = HealthReset /\ seed' = SeedReset
  /\ log' = <<>> /\ grew' = FALSE /\ emptied' = 0

Next == Reset \/ \E bit \in {0, 1}, read \in BOOLEAN : Clock(bit, read)

-----------------------------------------------------------------------------
\* SP 800-90B 4.4.1: a run of RepCutoff equal samples.  4.4.2, for either
\* value: a window, one behind the other, with ApCutoff samples alike.
RepetitionIn(samples) ==
  \E i \in 1 .. Len(samples) - RepCutoff + 1 :
    \A j \in i .. i + RepCutoff - 1 : samples[j] = samples[i]
ProportionIn(samples) ==
  \E w \in 0 .. (Len(samples) \div ApWindow) - 1, v \in {0, 1} :
    LET alike == {j \in 1 .. ApWindow : samples[w * ApWindow + j] = v}
    IN  Cardinality(alike) >= ApCutoff
Fails(samples) == RepetitionIn(samples) \/ ProportionIn(samples)

(* HealthAsStandard: the running counters have failed exactly if the       *)
(* samples taken since reset fail the standard's two tests, refills with   *)
(* pauses between them included (rvntt_entropy_health's header).           *)
HealthAsStandard == HealthFail <=> Fails(log)

(* SeedFresh: what a read would take is the Width samples taken next after *)
(* the buffer was last emptied, so that no sample is handed out twice; a   *)
(* test that fails is answered DEAD but in the cycle after its sample; and *)
(* once the start-up test is over a source is sampled for a refill and no  *)
(* more (rvntt_seed, "sampled only while refilling" and a_fail_means_dead).*)
SeedFresh ==
  /\ Status = "ES16" => seed.buf = SubSeq(log, emptied + 1, emptied + Width)
  /\ Status # "DEAD" /\ Fails(log) => grew
  /\ emptied > 0 => Len(log) <= emptied + Width
=============================================================================
