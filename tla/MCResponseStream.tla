---------------------------- MODULE MCResponseStream ----------------------------
(* Instances of ResponseStream for TLC: the streams and how long each may be. *)
EXTENDS ResponseStream

Http(protocol, eol, lines, length, wrong) ==
    [protocol |-> protocol, source |-> "http", eol |-> eol, lines |-> lines, blocks |-> length,
     mishaps |-> wrong]

ClaudeCode(length, wrong) ==
    [protocol |-> "anthropic", source |-> "claude", eol |-> "lf", lines |-> 1, blocks |-> length,
     mishaps |-> wrong]

\* Short streams that go wrong, long ones that are as their protocol has them.
AllStreams ==
    {Http("chat", "lf", 1, 4, 1), Http("chat", "lf", 1, 5, 0), Http("chat", "crlf", 1, 3, 1),
     Http("anthropic", "lf", 1, 5, 1),
     Http("responses", "lf", 1, 3, 1), Http("responses", "lf", 2, 4, 0),
     ClaudeCode(4, 1), ClaudeCode(8, 0)}

\* Data in two lines that end in CR LF.
FoldedStreams == {Http("chat", "crlf", 2, 2, 0)}

\* A Responses stream with a block after its last.
DoneStreams == {Http("responses", "lf", 1, 2, 1)}
=============================================================================
