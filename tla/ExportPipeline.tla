--------------------------- MODULE ExportPipeline ---------------------------
(***************************************************************************)
(* One redacted export of src/export.ts: parse the arguments, refuse or    *)
(* plan, copy redacted derivatives, convert training samples, scan, keep   *)
(* or drop the samples, report.  Every step of the file system may throw   *)
(* and leave the export unfinished: then there is no report.               *)
(***************************************************************************)
EXTENDS Naturals, Sequences, FiniteSets, SequencesExt, FiniteSetsExt

CONSTANTS Arguments,  \* the pieces of command lines: sequences of tokens
          MaxArguments, \* bound on the pieces
          Sources,    \* the source files
          Raw,        \* those that are raw traces
          Leaky,      \* those whose derivative the built-in scan finds secrets in
          Samples,    \* the samples in each raw trace
          DirtySamples, \* those whose generated line scans dirty
          None

VARIABLES phase,    \* how far the export has come
          args,     \* the command line
          opts,     \* its parsed form
          world,    \* what it meets: the destination, the configuration, the names
          disk,     \* the destination: its derivatives, review records and report
          status,   \* the files of the report
          scan,     \* the report of the external scan
          tally     \* samples rejected: by their own scan, by the external one

exportVars == <<phase, args, opts, world, disk, status, scan, tally>>

-----------------------------------------------------------------------------
(* Arguments                                                               *)

ValueOptions == {"--format", "--license", "--consent"}
FlagOptions  == {"--sessions-only", "--raw-only", "--trufflehog", "--no-trufflehog",
                 "--require-trufflehog"}
Recognized   == ValueOptions \cup FlagOptions

Defaults == [expects |-> None, error |-> FALSE, format |-> None, consent |-> None,
             sessions |-> TRUE, raw |-> TRUE, trufflehog |-> TRUE, required |-> FALSE]

ApplyFlag(o, t) ==
  CASE t = "--sessions-only"       -> [o EXCEPT !.sessions = TRUE, !.raw = FALSE]
    [] t = "--raw-only"            -> [o EXCEPT !.sessions = FALSE, !.raw = TRUE]
    [] t = "--trufflehog"          -> [o EXCEPT !.trufflehog = TRUE]
    [] t = "--no-trufflehog"       -> [o EXCEPT !.trufflehog = FALSE]
    [] t = "--require-trufflehog"  -> [o EXCEPT !.trufflehog = TRUE, !.required = TRUE]
    [] t \in ValueOptions          -> [o EXCEPT !.expects = t]
    [] OTHER                       -> o

ApplyValue(o, t) ==
  CASE o.expects = "--format"  -> [o EXCEPT !.expects = None, !.format = t]
    [] o.expects = "--consent" -> [o EXCEPT !.expects = None, !.consent = t]
    [] o.expects = "--license" -> [o EXCEPT !.expects = None]

(* slip: an option that follows an option is taken as its value *)
ApplyTokenGreedy(o, t) ==
  IF o.expects # None THEN ApplyValue(o, t) ELSE ApplyFlag(o, t)

(* A recognized option is never a value: the value before it is missing.   *)
ApplyToken(o, t) ==
  CASE o.expects # None /\ t \notin Recognized -> ApplyValue(o, t)
    [] o.expects # None /\ t \in Recognized    ->
         ApplyFlag([o EXCEPT !.expects = None, !.error = TRUE], t)
    [] OTHER                                   -> ApplyFlag(o, t)

(* Of the formats the last one given must be one that there is.            *)
ParseArgs(tokens) ==
  LET parsed[n \in 0..Len(tokens)] ==
        IF n = 0 THEN Defaults ELSE ApplyToken(parsed[n - 1], tokens[n])
      o == parsed[Len(tokens)] IN
  [o EXCEPT !.error = o.error \/ o.expects # None \/ o.format \notin {None, "chat"}]

(* A training export is one with a format.                                 *)
Training == opts.format # None

-----------------------------------------------------------------------------
(* Planning                                                                *)

Worlds == [destination : {"absent", "empty", "not empty", "not a directory"},
           identity    : {"fine", "unusable", "no salt"},
           consent     : {"unknown", "denied", "malformed"}, \* as configured
           collides    : BOOLEAN]
Empty    == [derivatives |-> {}, records |-> {}, report |-> None]

(* checkExportDestination and the identity policy                          *)
DestinationProblem == \/ opts.error
                      \/ world.identity = "unusable"
                      \/ world.destination \in {"not a directory", "not empty"}

Consent == IF opts.consent # None THEN opts.consent ELSE world.consent

(* prepareTraining: the samples come from raw traces, the scan is needed,  *)
(* consent is known and not denied, and there is a salt.                   *)
TrainingProblem == \/ ~opts.raw
                   \/ ~opts.trufflehog
                   \/ Consent \notin {"unknown", "granted"}
                   \/ world.identity = "no salt"

Inputs == {s \in Sources : IF s \in Raw THEN opts.raw ELSE opts.sessions}

(* Only the pseudonyms of a training export can collide.                   *)
Collision == Training /\ world.collides

Init ==
  /\ phase = "arguments" /\ args = <<>> /\ opts = Defaults
  /\ world = None
  /\ disk = Empty /\ status = << >> /\ scan = None
  /\ tally = [dirty |-> 0, dropped |-> 0]

Argument ==
  /\ phase = "arguments" /\ Len(args) < MaxArguments
  /\ \E a \in Arguments : args' = Append(args, a)
  /\ UNCHANGED <<phase, opts, world, disk, status, scan, tally>>

Parse ==
  /\ phase = "arguments"
  /\ opts' = ParseArgs(FlattenSeq(args))
  /\ world' \in Worlds
  /\ phase' = "plan"
  /\ UNCHANGED <<args, disk, status, scan, tally>>

Refuse ==
  /\ phase = "plan"
  /\ DestinationProblem \/ Collision \/ (Training /\ TrainingProblem)
  /\ phase' = "refused"
  /\ UNCHANGED <<args, opts, world, disk, status, scan, tally>>

Accept ==
  /\ phase = "plan"
  /\ ~DestinationProblem /\ ~Collision /\ ~(Training /\ TrainingProblem)
  /\ phase' = "copy"
  /\ UNCHANGED <<args, opts, world, disk, status, scan, tally>>

-----------------------------------------------------------------------------
(* The export                                                              *)

Copied == DOMAIN status

(* copyRedactedFile: write the derivative, judge it by the built-in scan.  *)
CopyFile ==
  /\ phase = "copy"
  /\ \E s \in Inputs \ Copied :
       /\ status' = [t \in Copied \cup {s} |->
                       IF t # s THEN status[t]
                       ELSE IF s \in Leaky THEN "rejected" ELSE "approved"]
       /\ disk' = [disk EXCEPT !.derivatives = @ \cup {s}]
  /\ UNCHANGED <<phase, args, opts, world, scan, tally>>

Converted == UNION {Samples[s] : s \in {t \in Copied \cap Raw : status[t] = "approved"}}

(* A sample is kept only if the generated line itself scans clean.         *)
ConvertTrainingSamples ==
  /\ phase = "copy" /\ Copied = Inputs
  /\ IF Training
     THEN /\ disk' = [disk EXCEPT !.records = Converted \ DirtySamples]
          /\ tally' = [tally EXCEPT !.dirty = Cardinality(Converted \cap DirtySamples)]
     ELSE UNCHANGED <<disk, tally>>
  /\ phase' = "scan"
  /\ UNCHANGED <<args, opts, world, status, scan>>

(* runTrufflehog: what each end of the scanner is reported as; one that    *)
(* fails may have printed findings before                                  *)
ScannerEnds == {"missing", "clean", "finds", "fails", "finds and fails"}

RunTrufflehog(end) ==
  [enabled   |-> TRUE,
   available |-> end # "missing",
   required  |-> opts.required \/ Training,
   findings  |-> end \in {"finds", "finds and fails"},
   warning   |-> end \notin {"clean", "finds"}]

SkippedTrufflehog == [enabled |-> FALSE, available |-> FALSE, required |-> FALSE,
                      findings |-> FALSE, warning |-> TRUE]

ScanRejectsFiles(s) == \/ s.available /\ (s.findings \/ s.warning)
                       \/ ~s.available /\ s.required

ScanSucceeded(s) == s.enabled /\ s.available /\ ~s.findings /\ ~s.warning

ScanExport ==
  /\ phase = "scan"
  /\ IF opts.trufflehog THEN \E end \in ScannerEnds : scan' = RunTrufflehog(end)
                        ELSE scan' = SkippedTrufflehog
  /\ status' = IF opts.trufflehog /\ ScanRejectsFiles(scan')
               THEN [s \in Copied |-> "rejected"] ELSE status
  /\ phase' = "finish"
  /\ UNCHANGED <<args, opts, world, disk, tally>>

(* Without a clean scan the review records are written again, empty.       *)
FinishTraining ==
  /\ phase = "finish"
  /\ IF Training /\ ~ScanSucceeded(scan)
     THEN /\ disk' = [disk EXCEPT !.records = {}]
          /\ tally' = [tally EXCEPT !.dropped = Cardinality(disk.records)]
     ELSE UNCHANGED <<disk, tally>>
  /\ phase' = "report"
  /\ UNCHANGED <<args, opts, world, status, scan>>

(* exportStatus *)
ExportStatus ==
  IF \/ \E s \in Copied : status[s] = "rejected"
     \/ scan.required /\ (~scan.available \/ scan.findings \/ scan.warning)
  THEN "rejected" ELSE "approved"

(* assembleReport and writeReviewFiles                                     *)
Report ==
  /\ phase = "report"
  /\ LET approved == {s \in Copied : status[s] = "approved"} IN
     disk' = [disk EXCEPT !.report =
       [status   |-> ExportStatus,
        approved |-> approved,
        rejected |-> Copied \ approved,
        accepted |-> Cardinality(disk.records),
        dropped  |-> tally.dirty + tally.dropped]]
  /\ phase' = "done"
  /\ UNCHANGED <<args, opts, world, status, scan, tally>>

(* Any step that touches the file system may throw, or be the last one.    *)
Interrupted ==
  /\ phase \in {"copy", "scan", "finish", "report"}
  /\ phase' = "interrupted"
  /\ UNCHANGED <<args, opts, world, disk, status, scan, tally>>

Next ==
  \/ Argument
  \/ Parse
  \/ Refuse
  \/ Accept
  \/ CopyFile
  \/ ConvertTrainingSamples
  \/ ScanExport
  \/ FinishTraining
  \/ Report
  \/ Interrupted

-----------------------------------------------------------------------------
(* Properties                                                              *)

TypeOK ==
  /\ phase \in {"arguments", "plan", "refused", "copy", "scan", "finish", "report",
                "done", "interrupted"}
  /\ disk.derivatives \subseteq Sources
  /\ disk.records \subseteq UNION {Samples[s] : s \in Raw}
  /\ Copied \subseteq Sources /\ \A s \in Copied : status[s] \in {"approved", "rejected"}

Finished == phase = "done"

(* Where consent is denied, in the configuration or on the command line,   *)
(* there are never review records, unless the command line says otherwise  *)
(* later: whatever options stand before or after the denial.               *)
DenialHonoured ==
  disk.records # {} =>
    LET tokens         == FlattenSeq(args)
        Declares(k, c) == k < Len(tokens) /\ tokens[k] = "--consent" /\ tokens[k + 1] = c
        LiftedFrom(k)  == \E j \in k..Len(tokens) : Declares(j, "granted") \/ Declares(j, "unknown")
    IN
    /\ world.consent = "denied" => LiftedFrom(1)
    /\ \A k \in DOMAIN tokens : Declares(k, "denied") => LiftedFrom(k)

(* In a finished export a file is approved only if nobody found anything   *)
(* in it and no scan that was asked for failed; and the report names each  *)
(* derivative once, as approved or rejected.                               *)
OnlyScannedApproved ==
  Finished =>
    LET r == disk.report IN
    /\ r.approved \cap Leaky = {}
    /\ (opts.trufflehog /\ r.approved # {})
         => (\/ scan = RunTrufflehog("clean")
             \/ (scan = RunTrufflehog("missing") /\ ~opts.required /\ ~Training))
    /\ r.approved \cup r.rejected = disk.derivatives
    /\ r.approved \cap r.rejected = {}
    /\ r.status = "approved" => r.rejected = {}

(* Review records survive only a clean scan that saw them, and only those  *)
(* of files that passed and whose own lines passed; the rest are counted.  *)
RecordsAfterScan ==
  Finished =>
    LET r == disk.report IN
    /\ disk.records # {} => scan = RunTrufflehog("clean") /\ Training
    /\ disk.records \cap DirtySamples = {}
    /\ \A s \in Raw : Samples[s] \cap disk.records # {} => s \in r.approved
    /\ Training => r.accepted + r.dropped =
         FoldSet(LAMBDA s, n : n + Cardinality(Samples[s]), 0,
                 (Inputs \cap Raw) \ Leaky)

(* A refused export has written nothing, and a destination that holds      *)
(* files is never touched.                                                 *)
RefusalsWriteNothing ==
  \/ phase \in {"arguments", "refused"}
  \/ world.destination \in {"not empty", "not a directory"}
  => disk = Empty

(* The export is honest: about consent, about what was scanned, and about  *)
(* what it has written.                                                    *)
ExportHonest ==
  DenialHonoured /\ OnlyScannedApproved /\ RecordsAfterScan /\ RefusalsWriteNothing
=============================================================================
