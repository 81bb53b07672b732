------------------------------- MODULE Downloads -------------------------------
(***************************************************************************)
(* drive +download and +export (helpers/drive.rs): the type of the file is *)
(* read first; a file that has no content of the kind asked for is refused *)
(* with the command that works instead, and the user goes on with that.    *)
(* The content goes to a file or, unscreened, to standard output.          *)
(*                                                                         *)
(* Types and formats are cut down to a few of each sort.  Another process  *)
(* may create the local file meanwhile.                                    *)
(***************************************************************************)
EXTENDS Outcome, FiniteSets

CONSTANT DownloadTurns  \* bound: commands

ASSUME DownloadsAssumption == DownloadTurns \in Nat

VARIABLES
  hStep,     \* "off", check, meta, fetch, emit, over
  hAsked,    \* the command, with its options
  hTurns,    \* commands so far
  hAdvice,   \* the commands the last error names
  hSure,     \* history: the last error knew the type of what it names
  hFollows,  \* history: this command was named by an error that knew
  hMistyped, \* history: the command was refused for the type of the file
  hLocal,    \* the local file: none, somebody else's, the whole content, which may have replaced one
  hOut,      \* what this command has put on standard output
  hEnd

downloadVars == <<hStep, hAsked, hTurns, hAdvice, hSure, hFollows, hMistyped, hLocal, hOut, hEnd>>

\* EXPORT_FORMATS: the types each can be made from.
Sources ==
  [pdf |-> {"doc", "sheet", "drawing"}, docx |-> {"doc"}, csv |-> {"sheet"}, png |-> {"drawing"}]

Format == DOMAIN Sources
FormatsOf(type) == {f \in Format : type \in Sources[f]}

\* Files: regular ones, Google's own (a form has no format), shortcuts to each, of
\* which Drive may not say the target's type.
FileType == {"regular", "doc", "sheet", "drawing", "form"}
DriveFile ==
  {f \in [type : FileType, shortcut : BOOLEAN, told : BOOLEAN] : f.shortcut \/ f.told}

Direct(file) == [file EXCEPT !.shortcut = FALSE, !.told = TRUE]
Get(file) == [what |-> "download", file |-> file, to |-> "raw"]
ExportTo(file, formats) == {[what |-> "export", file |-> file, to |-> f] : f \in formats}
AskedOf(command, output, overwrite, sanitize, dryRun) ==
  [command |-> command, output |-> output, overwrite |-> overwrite, sanitize |-> sanitize,
   dryRun |-> dryRun]

DownloadInit ==
  /\ hStep = "off" /\ hAsked = NoValue /\ hTurns = 0 /\ hAdvice = {} /\ hSure = FALSE
  /\ hFollows = FALSE /\ hMistyped = FALSE /\ hLocal = "none" /\ hOut = {} /\ hEnd = NoValue

DownloadEnds(ending) == hStep' = "over" /\ hEnd' = ending

\* A command: the first, or one the last error names.
DownloadBegin(asked) ==
  /\ hStep \in {"off", "over"} /\ hTurns < DownloadTurns
  /\ hStep' = "check" /\ hAsked' = asked /\ hTurns' = hTurns + 1
  /\ hFollows' = (hTurns > 0 /\ hSure)
  /\ hAdvice' = {} /\ hSure' = FALSE /\ hMistyped' = FALSE /\ hOut' = {} /\ hEnd' = NoValue
  /\ UNCHANGED hLocal

\* Mutant: the file that is there is not looked for.
InTheWayNever == FALSE

\* What stands in the way of the local file.
InTheWay == ~hAsked.overwrite /\ hLocal # "none"

\* Mutant: raw content may go past the screening.
RefusesStdoutNever == FALSE

\* refuse_unscreened_stdout
RefusesStdout == hAsked.sanitize /\ hAsked.output = "stdout"

\* Before credentials: the options, a file in the way where --output says.
DownloadCheck ==
  /\ hStep = "check"
  /\ \/ RefusesStdout /\ DownloadEnds("validation") /\ UNCHANGED hOut
     \/ /\ ~RefusesStdout
        /\ IF hAsked.output = "path" /\ InTheWay THEN DownloadEnds("validation") /\ UNCHANGED hOut
           ELSE IF hAsked.dryRun THEN DownloadEnds("ok") /\ hOut' = {"plan"}
           ELSE ((hStep' = "meta" /\ UNCHANGED hEnd) \/ DownloadEnds("auth")) /\ UNCHANGED hOut
  /\ UNCHANGED <<hAsked, hTurns, hAdvice, hSure, hFollows, hMistyped, hLocal>>

\* native_download_error
NativeAdvice(file) == ExportTo(file, FormatsOf(file.type))

\* Mutant: a shortcut's target is always downloaded.
ShortcutAdviceGet(file, requested) == {Get(Direct(file))}

\* shortcut_error: both commands where the type of the target is not known; the format
\* that was asked for where it fits.
ShortcutAdvice(file, requested) ==
  IF ~file.told THEN {Get(Direct(file))} \cup ExportTo(Direct(file), Format)
  ELSE IF file.type = "regular" THEN {Get(Direct(file))}
  ELSE ExportTo(Direct(file), IF requested \in FormatsOf(file.type) THEN {requested}
                              ELSE FormatsOf(file.type))

\* check_export
ExportAdvice(file) ==
  IF file.type = "regular" THEN {Get(file)} ELSE ExportTo(file, FormatsOf(file.type))

\* Whether the command fits the file.
Fits(command) ==
  /\ ~command.file.shortcut
  /\ IF command.what = "download" THEN command.file.type = "regular"
     ELSE command.to \in FormatsOf(command.file.type)

Advice(command) ==
  IF command.file.shortcut THEN ShortcutAdvice(command.file, command.to)
  ELSE IF command.what = "download" THEN NativeAdvice(command.file)
  ELSE ExportAdvice(command.file)

\* The file's type and name are read; the name is where it goes without --output.
DownloadMeta ==
  /\ hStep = "meta"
  /\ LET command == hAsked.command
     IN  \/ /\ \E e \in {"api", "auth", "network", "other"} : DownloadEnds(e)
            /\ UNCHANGED <<hAdvice, hSure, hMistyped>>
         \/ /\ ~Fits(command)
            /\ hAdvice' = Advice(command) /\ hMistyped' = TRUE
            /\ hSure' = (~command.file.shortcut \/ command.file.told)
            /\ DownloadEnds("validation")
         \/ /\ Fits(command)
            /\ IF hAsked.output # "stdout" /\ InTheWay THEN DownloadEnds("validation")
               ELSE hStep' = "fetch" /\ UNCHANGED hEnd
            /\ UNCHANGED <<hAdvice, hSure, hMistyped>>
  /\ UNCHANGED <<hAsked, hTurns, hFollows, hLocal, hOut>>

\* The content: to standard output as it comes; to a file as a whole, which replaces
\* one that has come meanwhile only with --overwrite.
DownloadFetch ==
  /\ hStep = "fetch"
  /\ \/ /\ \E e \in {"api", "auth", "network", "other"} : DownloadEnds(e)
        /\ hOut' \in (IF hAsked.output = "stdout" THEN {{}, {"raw"}} ELSE {{}})
        /\ UNCHANGED hLocal
     \/ /\ hAsked.output = "stdout"
        /\ hOut' = {"raw"} /\ hStep' = "emit" /\ UNCHANGED <<hLocal, hEnd>>
     \/ /\ hAsked.output # "stdout"
        /\ IF InTheWay THEN DownloadEnds("validation") /\ UNCHANGED hLocal
           ELSE /\ hLocal' = IF hLocal = "none" THEN "whole" ELSE "replaced"
                /\ hStep' = "emit" /\ UNCHANGED hEnd
        /\ UNCHANGED hOut
  /\ UNCHANGED <<hAsked, hTurns, hAdvice, hSure, hFollows, hMistyped>>

\* Mutant: the summary follows the content.
PrintsSummaryAlways == TRUE

\* streamed_to_stdout
PrintsSummary == hAsked.output # "stdout"

\* The summary; a screening that blocks it leaves the file.
DownloadEmit ==
  /\ hStep = "emit"
  /\ IF PrintsSummary
       THEN \/ hOut' = hOut \cup {"summary"} /\ DownloadEnds("ok")
            \/ UNCHANGED hOut /\ (\E e \in {"validation", "other"} : DownloadEnds(e))
            \/ hAsked.sanitize /\ UNCHANGED hOut
                 /\ (\E e \in {"blocked", "api", "auth", "network"} : DownloadEnds(e))
       ELSE DownloadEnds("ok") /\ UNCHANGED hOut
  /\ UNCHANGED <<hAsked, hTurns, hAdvice, hSure, hFollows, hMistyped, hLocal>>

\* Another process creates the file where the content is to go.
LocalAppears ==
  /\ hStep \in {"check", "meta", "fetch"} /\ hLocal = "none"
  /\ hLocal' = "other"
  /\ UNCHANGED <<hStep, hAsked, hTurns, hAdvice, hSure, hFollows, hMistyped, hOut, hEnd>>

DownloadCommand == {Get(f) : f \in DriveFile} \cup UNION {ExportTo(f, Format) : f \in DriveFile}

DownloadNext ==
  \/ hTurns = 0 /\ \E command \in DownloadCommand, output \in {"name", "path", "stdout"},
                      overwrite, sanitize, dryRun \in BOOLEAN :
       DownloadBegin(AskedOf(command, output, overwrite, sanitize, dryRun))
  \/ hTurns > 0 /\ \E command \in hAdvice : DownloadBegin([hAsked EXCEPT !.command = command])
  \/ DownloadCheck \/ DownloadMeta \/ DownloadFetch \/ DownloadEmit \/ LocalAppears

-------------------------------------------------------------------------------
DownloadTypeOK ==
  /\ hStep \in {"off", "check", "meta", "fetch", "emit", "over"}
  /\ hAsked # NoValue => hAsked.command \in DownloadCommand
  /\ hTurns \in 0..DownloadTurns /\ hAdvice \subseteq DownloadCommand
  /\ {hSure, hFollows, hMistyped} \subseteq BOOLEAN
  /\ hLocal \in {"none", "other", "whole", "replaced"} /\ hOut \subseteq {"plan", "raw", "summary"}
  /\ hEnd \in Ending \cup {NoValue}

\* An error about the type of a file names only commands that can work, and one if
\* there is any: who follows it is not refused again, not even by way of a shortcut
\* (unless Drive did not say what that points at).
AdviceWorks ==
  /\ hFollows => ~hMistyped
  /\ hMistyped => hAdvice # {} \/ hAsked.command.file.type = "form"
  /\ hAdvice # {} /\ hSure => \A a, b \in hAdvice : a.what = b.what /\ a.file = b.file

\* Raw content on standard output comes alone, only where it was asked for, and never
\* when everything is to be screened; a dry run fetches nothing.
OutputClean ==
  /\ "raw" \in hOut => hOut = {"raw"} /\ hAsked.output = "stdout" /\ ~hAsked.sanitize
  /\ hAsked # NoValue /\ hAsked.dryRun => hOut \subseteq {"plan"}

\* Somebody else's file is replaced with --overwrite only, however late it appears.
LocalKept ==
  hLocal = "replaced" => hAsked.overwrite

DownloadsCorrect == AdviceWorks /\ OutputClean /\ LocalKept
===============================================================================
