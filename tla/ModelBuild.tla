----------------------------- MODULE ModelBuild -----------------------------
(***************************************************************************)
(* The model compiler: qwen38_build_model.py drives two quantizers, one    *)
(* packer per runtime image, and the read-back verifier, over a plane      *)
(* directory and an output directory that outlive the process.             *)
(*                                                                         *)
(* The process may be killed at any step and started again with other      *)
(* arguments.  Planes that exist are reused, an image that exists is taken *)
(* as it is under --resume; what a killed run left half written is         *)
(* therefore an input of the next one.  The packers write with unbuffered  *)
(* files and ignore the count write() returns, so the write that meets a   *)
(* full disk is short and silent; the next one raises.                     *)
(*                                                                         *)
(* Data is abstracted to the checkpoint it was made from: the content of a *)
(* plane or of an image segment is the number of that checkpoint, and 0    *)
(* is content that is missing, of the wrong size or cut short.             *)
(***************************************************************************)
EXTENDS Naturals, Sequences, FiniteSets

CONSTANTS Layers,      \* the target layers that are built (0 .. 63 in the code)
          Sources,     \* the checkpoints a --bf16-index may name
          Hard,        \* <<checkpoint, directory, image>> that fails the gate
          Commands,    \* the argument vectors an operator may pass
          MaxBuilds,   \* bound: invocations of the builder
          MaxFaults    \* bound: kills and full disks

ASSUME BuildAssumption ==
    /\ Layers \subseteq Nat /\ IsFiniteSet(Layers)
    /\ Sources \subseteq Nat \ {0}
    /\ \A h \in Hard : h[1] \in Sources
    /\ Commands \subseteq [index : Sources \cup {0}, resume : BOOLEAN, check : BOOLEAN,
                          verify : BOOLEAN, cleanup : BOOLEAN,
                          tokenizer : BOOLEAN, draft : BOOLEAN, mtp : BOOLEAN]
    /\ MaxBuilds \in Nat /\ MaxFaults \in Nat

-----------------------------------------------------------------------------
(* Images, in the order build() makes them, and the segments of each in    *)
(* the order its packer writes them.                                       *)

Layer(l)  == <<"layer", l>>
Global    == <<"global", 0>>
Tokenizer == <<"tokenizer", 0>>
Draft     == <<"dflash2", 0>>
MtpLayer  == <<"mtplayer", 0>>
Mtp       == <<"mtp", 0>>

Targets == {Layer(l) : l \in Layers} \cup {Global}
Delta   == {Layer(l) : l \in {n \in Layers : n % 4 # 3}}
Images  == Targets \cup {Tokenizer, Draft, MtpLayer, Mtp}

\* A mutation: the vectors come last.
DeltaPlanVectorsLast == <<"header", "q4", "q8", "q4", "vec">>

DeltaPlan     == <<"header", "q4", "vec", "q8", "q4">>    \* MLP, constants, in, out
AttentionPlan == <<"header", "q4", "vec", "q4">>          \* MLP, constants, q k v o
GlobalPlan    == <<"header", "q4", "vec">>      \* embedding and lm_head, final norm
TokenizerPlan == <<"header", "source">>
MtpLayerPlan  == <<"header", "source">>
MtpPlan       == <<"header", "source">>
DraftPlan     == <<"source", "header">>         \* the header is filled in at the end

Plan(i) == CASE i = Global    -> GlobalPlan
             [] i = Tokenizer -> TokenizerPlan
             [] i = Draft     -> DraftPlan
             [] i = MtpLayer  -> MtpLayerPlan
             [] i = Mtp       -> MtpPlan
             [] i \in Delta   -> DeltaPlan
             [] i \in Targets \ (Delta \cup {Global}) -> AttentionPlan

Position == [layer |-> 0, global |-> 1, tokenizer |-> 2, dflash2 |-> 3,
             mtplayer |-> 4, mtp |-> 5]
Before(i, j) == \/ Position[i[1]] < Position[j[1]]
                \/ Position[i[1]] = Position[j[1]] /\ i[2] <= j[2]
First(S) == CHOOSE i \in S : \A j \in S : Before(i, j)

VARIABLES
    q4,        \* work/q4_all: per target, the group's codes and f32 vectors
    q8,        \* work/q8_all: per DeltaNet layer, the input codes
    file,      \* the output directory: per image, what its segments hold
    pc,        \* where the builder is
    args,      \* the arguments of this invocation
    todo,      \* groups or images this phase has still to make
    fresh,     \* the plane directories this invocation quantized
    failed,    \* groups of the running quantizer that failed its gate
    full,      \* the disk has no room left
    outcome,   \* how the last invocation ended
    builds, faults

planes == <<q4, q8>>
disk   == <<q4, q8, file>>
budget == <<builds, faults>>
vars   == <<q4, q8, file, pc, args, todo, fresh, failed, full, outcome, budget>>

NoGroup == [there |-> FALSE, codes |-> 0, vec |-> 0]
NoFile  == [there |-> FALSE, parts |-> <<>>]
Empty(dir)  == \A g \in DOMAIN dir : ~dir[g].there

(* What require_sized finds for segment k of image i: the content to copy, *)
(* or 0 when the plane is missing or of another size.                      *)
Content(i, k) ==
    CASE Plan(i)[k] = "q4"  -> q4[i].codes
      [] Plan(i)[k] = "vec" -> q4[i].vec
      [] Plan(i)[k] = "q8"  -> q8[i].codes
      [] OTHER -> 1

(* A tokenizer is wanted when one is named or lies beside the index;       *)
(* without it the build goes on with a warning.                            *)
Wanted(c) == Targets \cup (IF c.tokenizer THEN {Tokenizer} ELSE {})
                     \cup (IF c.draft THEN {Draft} ELSE {})
                     \cup (IF c.mtp THEN {MtpLayer, Mtp} ELSE {})

Whole(i) == /\ file[i].there /\ Len(file[i].parts) = Len(Plan(i))
            /\ \A k \in DOMAIN Plan(i) : file[i].parts[k] # 0

Running == pc # "idle"
Current == First(todo)

-----------------------------------------------------------------------------

Init == /\ q4 = [g \in Targets |-> NoGroup]
        /\ q8 = [g \in Delta |-> NoGroup]
        /\ file = [i \in Images |-> NoFile]
        /\ pc = "idle" /\ args \in Commands /\ todo = {} /\ fresh = {}
        /\ failed = FALSE /\ full = FALSE /\ outcome = "none"
        /\ builds = 0 /\ faults = 0

End(how) == /\ pc' = "idle" /\ outcome' = how /\ todo' = {} /\ failed' = FALSE
            /\ UNCHANGED <<args, fresh, full, budget>>

(* main and the head of build(): the operator has made room on the disk.   *)
(* Without an index both plane directories have to be there, not more; one *)
(* that holds nothing may be there or not.                                 *)
Start(c) ==
    /\ ~Running /\ builds < MaxBuilds
    /\ builds' = builds + 1
    /\ args' = c /\ fresh' = {} /\ failed' = FALSE /\ full' = FALSE
    /\ \/ /\ c.index = 0 /\ (Empty(q4) \/ Empty(q8))
          /\ pc' = "idle" /\ todo' = {} /\ outcome' = "error"
       \/ /\ outcome' = "none"
          /\ pc' = IF c.index = 0 THEN "pack" ELSE "q4"
          /\ todo' = IF c.index = 0 THEN Wanted(c)
                     ELSE IF Empty(q4) THEN Targets ELSE {}
    /\ UNCHANGED <<disk, faults>>

-----------------------------------------------------------------------------
(* The quantizers.  Each group's planes are written whether or not the     *)
(* group passed its gate; the exit code at the end tells.                  *)

Q4Passes(g) == args.check => <<args.index, "q4", g>> \notin Hard
Q8Passes(g) == args.check => <<args.index, "q8", g>> \notin Hard

Q4First == IF Global \in todo THEN Global ELSE Current

Q4MakeGroup ==
    /\ pc = "q4" /\ todo # {} /\ ~q4[Q4First].there
    /\ q4' = [q4 EXCEPT ![Q4First].there = TRUE]
    /\ fresh' = fresh \cup {"q4"}
    /\ UNCHANGED <<q8, file, pc, args, todo, failed, full, outcome, budget>>

Q4WritePlanes ==
    /\ pc = "q4" /\ todo # {} /\ q4[Q4First].there /\ q4[Q4First].codes = 0
    /\ q4' = [q4 EXCEPT ![Q4First].codes = args.index]
    /\ failed' = (failed \/ ~Q4Passes(Q4First))
    /\ UNCHANGED <<q8, file, pc, args, todo, fresh, full, outcome, budget>>

Q4WriteVectors ==
    /\ pc = "q4" /\ todo # {} /\ q4[Q4First].codes # 0
    /\ q4' = [q4 EXCEPT ![Q4First].vec = args.index]
    /\ todo' = todo \ {Q4First}
    /\ UNCHANGED <<q8, file, pc, args, fresh, failed, full, outcome, budget>>

Q8MakeGroup ==
    /\ pc = "q8" /\ todo # {} /\ ~q8[Current].there
    /\ q8' = [q8 EXCEPT ![Current].there = TRUE]
    /\ fresh' = fresh \cup {"q8"}
    /\ UNCHANGED <<q4, file, pc, args, todo, failed, full, outcome, budget>>

Q8WritePlanes ==
    /\ pc = "q8" /\ todo # {} /\ q8[Current].there
    /\ q8' = [q8 EXCEPT ![Current].codes = args.index]
    /\ failed' = (failed \/ ~Q8Passes(Current))
    /\ todo' = todo \ {Current}
    /\ UNCHANGED <<q4, file, pc, args, fresh, full, outcome, budget>>

(* The checkpoint lacks a tensor, or has it in another shape.             *)
QuantizerFatal == /\ pc \in {"q4", "q8"} /\ todo # {}
                  /\ End("error") /\ UNCHANGED disk

\* A mutation: the exit code is not looked at.
QuantizerForgives ==
    /\ pc \in {"q4", "q8"} /\ todo = {}
    /\ pc' = IF pc = "q4" THEN "q8" ELSE "pack"
    /\ todo' = CASE pc = "q8" -> Wanted(args)
                  [] pc = "q4" -> IF Empty(q8) THEN Delta ELSE {}
    /\ UNCHANGED <<disk, args, fresh, failed, full, outcome, budget>>

(* The exit code of a quantizer reaches build() as CalledProcessError.     *)
QuantizerDone ==
    /\ pc \in {"q4", "q8"} /\ todo = {}
    /\ IF failed THEN End("error")
       ELSE /\ pc' = IF pc = "q4" THEN "q8" ELSE "pack"
            /\ todo' = CASE pc = "q8" -> Wanted(args)
                         [] pc = "q4" -> IF Empty(q8) THEN Delta ELSE {}
            /\ UNCHANGED <<args, fresh, failed, full, outcome, budget>>
    /\ UNCHANGED disk

-----------------------------------------------------------------------------
(* The packers.                                                            *)

(* _write_or_resume; the two MTP files are both asked for before either is *)
(* packed.                                                                 *)
Asked(i) == IF i = MtpLayer THEN {MtpLayer, Mtp} ELSE {i}

Refuse == /\ pc = "pack" /\ todo # {} /\ ~args.resume
          /\ \E i \in Asked(Current) : file[i].there
          /\ End("error") /\ UNCHANGED disk

TakeAsIs == /\ pc = "pack" /\ todo # {} /\ args.resume /\ file[Current].there
            /\ todo' = todo \ {Current}
            /\ UNCHANGED <<disk, pc, args, fresh, failed, full, outcome, budget>>

(* A hash, an inventory or a parse of the source refuses it before the     *)
(* image is created.                                                       *)
Refused(i) == /\ pc = "pack" /\ todo # {} /\ Current = i
              /\ End("error") /\ UNCHANGED disk

TokenizerRefused == Refused(Tokenizer)
DraftRefused     == Refused(Draft)
MtpRefused       == Refused(MtpLayer) \/ Refused(Mtp)

\* A mutation: the image is opened without O_EXCL.
CreateOver == /\ pc = "pack" /\ todo # {}
              /\ file' = [file EXCEPT ![Current] = [there |-> TRUE, parts |-> <<>>]]
              /\ pc' = "write"
              /\ UNCHANGED <<planes, args, todo, fresh, failed, full, outcome, budget>>

Create == /\ pc = "pack" /\ todo # {}
          /\ ~file[Current].there
          /\ args.resume \/ \A i \in Asked(Current) : ~file[i].there
          /\ file' = [file EXCEPT ![Current] = [there |-> TRUE, parts |-> <<>>]]
          /\ pc' = "write"
          /\ UNCHANGED <<planes, args, todo, fresh, failed, full, outcome, budget>>

Done     == Len(file[Current].parts)
Last     == Done = Len(Plan(Current))
Put(c)   == file' = [file EXCEPT ![Current].parts = Append(@, c)]

WriteSegment ==
    /\ pc = "write" /\ ~Last /\ ~full /\ Content(Current, Done + 1) # 0
    /\ Put(Content(Current, Done + 1))
    /\ UNCHANGED <<planes, pc, args, todo, fresh, failed, full, outcome, budget>>

(* The disk fills up under one write: the rest of it is lost, no error.    *)
(* The DFlash2 packer writes through a buffer, which does raise.           *)
ShortWrite ==
    /\ pc = "write" /\ ~Last /\ ~full /\ Content(Current, Done + 1) # 0
    /\ Current # Draft /\ faults < MaxFaults
    /\ Put(0) /\ full' = TRUE /\ faults' = faults + 1
    /\ UNCHANGED <<planes, pc, args, todo, fresh, failed, outcome, builds>>

(* A plane of the wrong size, a malformed tensor or a full disk raises:    *)
(* all packers but the DFlash2 one remove the image.                       *)

\* A mutation: the image stays.
DiscardNothing(i) == file

Discard(i) == IF i = Draft THEN file ELSE [file EXCEPT ![i] = NoFile]

MayBeMalformed == Plan(Current)[Done + 1] = "source"

PackError ==
    /\ pc = "write" /\ ~Last
    /\ full \/ Content(Current, Done + 1) = 0 \/ MayBeMalformed
    /\ file' = Discard(Current)
    /\ End("error") /\ UNCHANGED planes

\* A mutation: the packer is not left.
FinalizeStaying == /\ pc = "write" /\ Last
                   /\ todo' = todo \ {Current}
                   /\ UNCHANGED <<disk, pc, args, fresh, failed, full, outcome, budget>>

Finalize == /\ pc = "write" /\ Last
            /\ todo' = todo \ {Current} /\ pc' = "pack"
            /\ UNCHANGED <<disk, args, fresh, failed, full, outcome, budget>>

-----------------------------------------------------------------------------
(* The verifier and the end of build().                                    *)

\* A mutation: nothing is verified.
PackedUnverified == /\ pc = "pack" /\ todo = {}
                    /\ pc' = "report"
                    /\ UNCHANGED <<disk, args, todo, fresh, failed, full, outcome, budget>>

Packed == /\ pc = "pack" /\ todo = {}
          /\ pc' = IF args.verify THEN "verify" ELSE "report"
          /\ UNCHANGED <<disk, args, todo, fresh, failed, full, outcome, budget>>

(* seg_equal for every quantized segment; the vectors are not compared.    *)
Compared(i) == {k \in DOMAIN Plan(i) : Plan(i)[k] \in {"q4", "q8"}}

\* A mutation: bytes past the end of the image are not missed.
MatchesWhatIsThere(i) ==
    LET parts == file[i].parts IN
    /\ Len(parts) > 0 /\ parts[1] # 0
    /\ \A k \in Compared(i) : k <= Len(parts) => parts[k] = Content(i, k)

Matches(i) ==
    LET parts == file[i].parts IN
    /\ Len(parts) > 0 /\ parts[1] # 0
    /\ \A k \in Compared(i) : /\ Content(i, k) # 0
                              /\ k <= Len(parts) /\ parts[k] = Content(i, k)

Verify == /\ pc = "verify"
          /\ IF \A i \in Targets : file[i].there => Matches(i)
             THEN /\ pc' = "report"
                  /\ UNCHANGED <<args, todo, fresh, failed, full, outcome, budget>>
             ELSE End("error")
          /\ UNCHANGED disk

Report == /\ pc = "report"
          /\ IF args.cleanup /\ args.index # 0
             THEN /\ q4' = [g \in Targets |-> NoGroup]
                  /\ q8' = [g \in Delta |-> NoGroup]
             ELSE UNCHANGED planes
          /\ End("built") /\ UNCHANGED file

-----------------------------------------------------------------------------
(* What may happen around the builder.                                     *)

(* SIGKILL; inside a write the segment is cut short.                       *)
Kill == /\ Running /\ faults < MaxFaults
        /\ faults' = faults + 1 /\ pc' = "idle" /\ outcome' = "killed"
        /\ todo' = {} /\ failed' = FALSE
        /\ \/ UNCHANGED file
           \/ pc = "write" /\ ~Last /\ ~full /\ Put(0)
        /\ UNCHANGED <<planes, args, fresh, full, builds>>

(* A packer run by hand.  create_exclusive raises FileExistsError inside   *)
(* the packer's try, whose handler then removes the image that was there.  *)
RunPacker(i) ==
    /\ ~Running /\ builds < MaxBuilds
    /\ builds' = builds + 1
    /\ LET whole == [there |-> TRUE, parts |-> [k \in DOMAIN Plan(i) |-> Content(i, k)]]
           sound == \A k \in DOMAIN Plan(i) : Content(i, k) # 0
       IN file' = [file EXCEPT ![i] = IF sound /\ (i = Draft \/ ~@.there)
                                      THEN whole ELSE NoFile]
    /\ outcome' = "packer"
    /\ UNCHANGED <<planes, pc, args, todo, fresh, failed, full, faults>>

(* The operator removes the work directory to quantize again.              *)
RemovePlanes == /\ ~Running /\ ~(Empty(q4) /\ Empty(q8))
                /\ q4' = [g \in Targets |-> NoGroup]
                /\ q8' = [g \in Delta |-> NoGroup]
                /\ UNCHANGED <<file, pc, args, todo, fresh, failed, full, outcome, budget>>

Quantize == Q4MakeGroup \/ Q4WritePlanes \/ Q4WriteVectors
                        \/ Q8MakeGroup \/ Q8WritePlanes
                        \/ QuantizerFatal \/ QuantizerDone
Pack     == Refuse \/ TakeAsIs \/ TokenizerRefused \/ DraftRefused \/ MtpRefused
                   \/ Create \/ WriteSegment \/ ShortWrite \/ PackError \/ Finalize
Finish   == Packed \/ Verify \/ Report

Next == \/ \E c \in Commands : Start(c)
        \/ Quantize \/ Pack \/ Finish \/ Kill
        \/ \E i \in Images : RunPacker(i)
        \/ RemovePlanes

Spec == Init /\ [][Next]_vars

-----------------------------------------------------------------------------
(* Properties.                                                             *)

PlanesTyped ==
    /\ q4 \in [Targets -> [there : BOOLEAN, codes : Sources \cup {0},
                           vec : Sources \cup {0}]]
    /\ q8 \in [Delta -> [there : BOOLEAN, codes : Sources \cup {0}, vec : {0}]]

FilesTyped ==
    file \in [Images -> [there : BOOLEAN, parts : Seq(Sources \cup {0, 1})]]

ControlTyped ==
    /\ pc \in {"idle", "q4", "q8", "pack", "write", "verify", "report"}
    /\ args \in Commands /\ todo \subseteq Images /\ fresh \subseteq {"q4", "q8"}
    /\ failed \in BOOLEAN /\ full \in BOOLEAN
    /\ outcome \in {"none", "error", "killed", "built", "packer"}

BudgetTyped == builds \in 0 .. MaxBuilds /\ faults \in 0 .. MaxFaults

(* A packer that writes is in the image it is making, and not past its end. *)
InsideImage ==
    pc = "write" => todo # {} /\ file[Current].there /\ Done <= Len(Plan(Current))

TypeOK == PlanesTyped /\ FilesTyped /\ ControlTyped /\ BudgetTyped /\ InsideImage

Verified == pc = "report" /\ args.verify

(* A build that reports verified_target holds every target image, and each *)
(* quantized segment of it is the plane now on disk, whatever earlier      *)
(* invocations, kills and other checkpoints left behind for --resume.      *)
VerifiedMatchesPlanes ==
    Verified => \A i \in Targets : \A k \in DOMAIN Plan(i) :
        Plan(i)[k] \in {"q4", "q8"} =>
            /\ file[i].there /\ k <= Len(file[i].parts)
            /\ Content(i, k) # 0 /\ file[i].parts[k] = Content(i, k)

(* The vectors of a layer are never compared, but they are written before  *)
(* its last quantized segment: a layer image cut short anywhere, by a kill *)
(* or by a full disk, does not pass the verifier.                          *)
VerifiedLayersWhole ==
    Verified => \A i \in Targets \ {Global} : Whole(i)

(* The docstring's claim for the whole target: "The target Q4/Q8 images    *)
(* are verified byte-for-byte against the emitted plane files".  The final *)
(* norm is the last thing pack_global writes and no part of the check.     *)
VerifiedTargetWhole == Verified => \A i \in Targets : Whole(i)

(* Without a kill, no builder that stopped, for whatever reason, leaves an *)
(* image that --resume would take for complete; DFlash2 is the exception.  *)
ErrorsLeaveNoStump ==
    ~Running /\ faults = 0 =>
        \A i \in Images \ {Draft} : file[i].there => Whole(i)

(* A build packs planes it quantized itself, gate on, only when every one  *)
(* of their groups passed; reused planes carry no such promise.            *)
FreshPlanesPassedGate ==
    pc \in {"pack", "write", "verify", "report"} /\ args.check =>
        /\ "q4" \in fresh => \A g \in Targets : <<q4[g].codes, "q4", g>> \notin Hard
        /\ "q8" \in fresh => \A g \in Delta : <<q8[g].codes, "q8", g>> \notin Hard

(* The builder never changes or removes an image that is whole, whatever   *)
(* fails around it.                                                        *)
WholeImagesKept ==
    [][Running => \A i \in Images : Whole(i) => file'[i] = file[i]]_vars

(* Planes are cleaned up only when their content is safe in the images, or *)
(* the operator waived the verification.                                   *)
CleanupLosesNothing ==
    [][Running /\ planes' # planes /\ ~Empty(q4) /\ Empty(q4)' /\ args.verify =>
         \A i \in Targets \ {Global} : Whole(i)]_vars

=============================================================================
