---------------------------- MODULE MCNodeHelpers ----------------------------
(* A small node: one app with an id of the greatest length, two container  *)
(* names, the contents of its env file that the parsers tell apart, and    *)
(* frames at the bounds of both validations.  One of the files declares    *)
(* another id than its name says, and one of the frames asks for that id.  *)
EXTENDS NodeHelpers

Id(n) == [legal |-> TRUE, length |-> n]
MCApp    == Id(120)
Own      == Id(3)
Other    == Id(4)
MCNoWord == Id(0)
MCWords  == {MCApp, Own, Other}
MCNames  == {Id(255), Id(1)}

Plain(w) == [blank |-> FALSE, quotes |-> "none", padded |-> FALSE,
             word |-> w, comment |-> FALSE]
Quoted(w)    == [Plain(w) EXCEPT !.quotes = "closed"]
Commented(w) == [Plain(w) EXCEPT !.blank = TRUE, !.comment = TRUE]
Of(i, p)     == [id |-> i, project |-> p]

MCFiles == {
  NoFile,
  Of(Plain(MCApp), Quoted(Own)),
  Of(Commented(MCApp), Commented(Other)),
  Of(Plain(Other), Plain(Own)),
  Of([Quoted(MCApp) EXCEPT !.blank = TRUE], Plain(Own)),
  Of(Plain(MCApp), [Quoted(Own) EXCEPT !.padded = TRUE]),
  Of(Plain(MCApp), Commented(MCNoWord)),
  Of([Quoted(MCApp) EXCEPT !.quotes = "open"], Plain(Own))}

MCLabels == {[project |-> Bare(Own), service |-> TRUE],
             [project |-> Bare(Own), service |-> FALSE],
             [project |-> Bare(Other), service |-> TRUE]}

MCWritten == {"current-sha", "last-error.log"}

Called(n, l)  == [id |-> 0, name |-> Id(n), labels |-> l]
OwnUp         == Called(255, [project |-> Bare(Own), service |-> TRUE])
OwnOneOff     == Called(1, [project |-> Bare(Own), service |-> FALSE])
OtherUp       == Called(1, [project |-> Bare(Other), service |-> TRUE])
MCNodes ==
  {[env |-> f, containers |-> {OwnUp, OtherUp}] : f \in MCFiles} \cup
  {[env |-> Of(Plain(MCApp), Quoted(Own)), containers |-> cs] :
     cs \in {{}, {OwnUp, OwnOneOff}}}

Command(c, a)   == [Unasked EXCEPT !.type = "command.execute", !.command = c, !.app = a]
Logs(a, con, t) == [Unasked EXCEPT !.type = "logs.start", !.app = a,
                                   !.container = con, !.tail = t]

MCFrames == {
  Command("DEPLOY", MCApp), Command("RECREATE", MCApp), Command("RESTART", Other),
  Logs(MCApp, Id(255), 1000), Logs(MCApp, Id(1), 1), Logs(MCApp, Id(1), 1001),
  Logs(MCApp, [legal |-> FALSE, length |-> 1], 10),
  [Unasked EXCEPT !.type = "error"], Unasked}
=============================================================================
