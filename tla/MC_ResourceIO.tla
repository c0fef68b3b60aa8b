---------------------------- MODULE MC_ResourceIO ----------------------------
EXTENDS ResourceIO, TLC

\* A resource in the WIM, in a file with and without an open FILE, in an
\* attached buffer, and in an NTFS attribute, plain or a reparse point.
MCLocations ==
    {[kind |-> "wim", has_fp |-> FALSE, reparse |-> FALSE],
     [kind |-> "file", has_fp |-> FALSE, reparse |-> FALSE],
     [kind |-> "file", has_fp |-> TRUE, reparse |-> FALSE],
     [kind |-> "buffer", has_fp |-> FALSE, reparse |-> FALSE],
     [kind |-> "ntfs", has_fp |-> FALSE, reparse |-> FALSE],
     [kind |-> "ntfs", has_fp |-> FALSE, reparse |-> TRUE]}

MCBuffer == {[kind |-> "buffer", has_fp |-> FALSE, reparse |-> FALSE]}
====
