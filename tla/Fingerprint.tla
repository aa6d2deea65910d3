----------------------------- MODULE Fingerprint -----------------------------
(***************************************************************************)
(* The signature by which events are grouped (apps/events/utils.py).  A    *)
(* text is [name, noise, secret]: the noise is what normalisation drops    *)
(* (addresses, UUIDs, line numbers, chunk hashes, bundler prefixes), the   *)
(* secret what redaction replaces by a mark, which normalisation keeps.  A *)
(* line of a trace has a form: a Python frame, a JavaScript frame or       *)
(* another line.  Lines that name no code (the traceback header, the top   *)
(* level frame of a Python module) are skipped.                            *)
(***************************************************************************)
EXTENDS SequencesExt

CONSTANT TopN     \* top_n: frames that make a fingerprint

ASSUME TopNAssumption == TopN \in Nat \ {0}

redact_secrets(text) ==
    [text EXCEPT !.secret = IF @ = "none" THEN "none" ELSE "[REDACTED]"]

\* _normalize, normalize_chunk_filename and clean_protocol
Normalize(text) == <<text.name, text.secret>>

\* is_in_app_frame: no vendor pattern matches the file.
is_in_app_frame(line) == ~ line.vendor

Recognised(trace) == \E i \in DOMAIN trace : trace[i].form \in {"python", "javascript"}

\* parse_stacktrace_frames: other lines are frames only of a trace without any.
parse_stacktrace_frames(trace) ==
    LET Kept(line) == ~ line.skipped /\ (line.form = "other" => ~ Recognised(trace))
        Frame(line) == [file |-> Normalize(line.file), in_app |-> is_in_app_frame(line),
                        function |-> IF line.form = "other" THEN <<>> ELSE Normalize(line.function)]
        lines == SelectSeq(trace, Kept) IN
    [i \in DOMAIN lines |-> Frame(lines[i])]

\* The frames an SDK sends as dictionaries; in_app may be missing.
GivenFrames(frames) ==
    [i \in DOMAIN frames |->
        [file |-> Normalize(frames[i].file), function |-> Normalize(frames[i].function),
         in_app |-> IF frames[i].in_app = "missing" THEN is_in_app_frame(frames[i])
                    ELSE frames[i].in_app = "true"]]

InApp(frames) == SelectSeq(frames, LAMBDA frame : frame.in_app)
Top(frames) == SubSeq(frames, 1, IF Len(frames) < TopN THEN Len(frames) ELSE TopN)

\* Mutant of Selected: the first frames, then those in the app.
Selected_SliceFirst(frames) ==
    IF InApp(Top(frames)) # <<>> THEN InApp(Top(frames)) ELSE Top(frames)

Selected(frames) == Top(IF InApp(frames) # <<>> THEN InApp(frames) ELSE frames)

\* fingerprint, version 2
fingerprint(message, trace, frames) ==
    LET parsed == IF frames # <<>> THEN GivenFrames(frames) ELSE parse_stacktrace_frames(trace)
        Part(frame) == <<frame.file, frame.function>> IN
    <<Normalize(message)>> \o [i \in DOMAIN Selected(parsed) |-> Part(Selected(parsed)[i])]
=============================================================================
