--------------------------- MODULE MCProblemAdmin ---------------------------
(* Small instances of ProblemAdmin for TLC. *)
EXTENDS ProblemAdmin, TLC

CONSTANTS r1, r2, s1, s2

\* The files of the given cases, all at one place of the archive.
Files(place, ins, outs) ==
    [place : {place}, name : ins, ext : {"in"}] \cup [place : {place}, name : outs, ext : {"out"}]

\* Archives without directories and hidden files: two good ones, one in which
\* an answer is missing and one without cases.
FlatArchives ==
    {Files("top", {1}, {1, 2}), Files("top", {1, 2}, {1, 2}), Files("top", {1, 2}, {1}), Files("top", {}, {1})}

\* Cases in a directory, and a hidden file beside a good case.
NestedArchives == {Files("directory", {1}, {1})}

HiddenArchives == {Files("top", {1}, {1}) \cup Files("hidden", {1}, {})}

Interchangeable == Permutations(Requests) \cup Permutations(Submissions)
=============================================================================
