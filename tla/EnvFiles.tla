------------------------------ MODULE EnvFiles ------------------------------
(***************************************************************************)
(* The declarations in /etc/saad-deploy/<app>.env, and the two programs    *)
(* that read them as data: control_helper.py, which decides by them, and   *)
(* deploy_metadata.py, which announces them to the agent.  Each has a      *)
(* parser of its own.  A raw value is abstracted to what the parsers look  *)
(* at: a blank after "=", quotes, blanks inside the quotes, the word, and  *)
(* an inline comment.                                                      *)
(***************************************************************************)
CONSTANTS
  Words,     \* app ids and Compose project names
  NoWord     \* nothing written where a word could be

ASSUME NoWordAssumption == NoWord \notin Words

Raw == [blank   : BOOLEAN,                     \* KEY= ...
        quotes  : {"none", "closed", "open"},  \* "open": the quote is never closed
        padded  : BOOLEAN,                     \* blanks between quote and word
        word    : Words \cup {NoWord},
        comment : BOOLEAN]                     \* ... #comment

Dress == {"bare", "blanks", "marks", "hash", "unset"}
Value == [word : Words \cup {NoWord}, dress : Dress]

Bare(w)  == [word |-> w, dress |-> "bare"]
Empty    == Bare(NoWord)
Unset    == [word |-> NoWord, dress |-> "unset"]

(* shlex.split(value, comments=True, posix=True)[0] of a value that starts *)
(* with a quote; an unclosed quote is a ValueError and drops the line.     *)
Shlex(raw) ==
  IF raw.quotes = "open"
  THEN Unset
  ELSE [word |-> raw.word, dress |-> IF raw.padded THEN "blanks" ELSE "bare"]

(* deploy_metadata.py and saad_deploy.py: strip, then look for a quote.    *)
(* A lone comment is no longer preceded by a blank and stays as it is.     *)
MetadataValue(raw) ==
  IF raw.quotes # "none" THEN Shlex(raw)
  ELSE IF raw.word = NoWord /\ raw.comment
       THEN [word |-> NoWord, dress |-> "hash"]
       ELSE Bare(raw.word)

(* control_helper.py: look for a quote at once; strip only what has none.  *)
(* Quotes after a blank are kept as part of the value.                     *)
ControlValue(raw) ==
  IF raw.quotes # "none"
  THEN IF raw.blank THEN [word |-> raw.word, dress |-> "marks"] ELSE Shlex(raw)
  ELSE IF raw.word = NoWord /\ raw.comment /\ ~raw.blank
       THEN [word |-> NoWord, dress |-> "hash"]
       ELSE Bare(raw.word)

(* What collect_instances and the agent keep of a value: stripped once     *)
(* more, and None when nothing is left.                                    *)
Kept(value) ==
  IF value.dress = "blanks" THEN Bare(value.word)
  ELSE IF value = Unset THEN Empty
  ELSE value

File   == [id : Raw, project : Raw]
NoFile == [id      |-> [blank |-> FALSE, quotes |-> "none", padded |-> FALSE,
                        word |-> NoWord, comment |-> FALSE],
           project |-> [blank |-> FALSE, quotes |-> "none", padded |-> FALSE,
                        word |-> NoWord, comment |-> FALSE]]

(* What the agent shows for a file: an app id and its project, either of   *)
(* them Empty when the file declares none.                                 *)
Announced(file) == [id      |-> Kept(MetadataValue(file.id)),
                    project |-> Kept(MetadataValue(file.project))]

(* registered_app: the file of that name declares that id and a project.   *)
Declares(file, app) ==
  /\ ControlValue(file.id) = Bare(app)
  /\ ControlValue(file.project) \notin {Unset, Empty}

(* The helper compares the label of a container with the value as it is.   *)
Project(file) == ControlValue(file.project)
=============================================================================
