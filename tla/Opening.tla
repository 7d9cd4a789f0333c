------------------------------- MODULE Opening -------------------------------
(***************************************************************************)
(* source.rs and decompress.rs: how an image is opened, by its path or as  *)
(* standard input.  Its first bytes decide whether it is decoded, and must *)
(* not be missing afterwards.                                              *)
(*                                                                         *)
(* What is opened is a sequence of reads, each the bytes that one call of  *)
(* read would give if it asked for as many; calls that are interrupted are *)
(* repeated and do not count.  An ImageSource is a record of what is known *)
(* of it, and of `from`, the bytes that it or its decoder will read.       *)
(***************************************************************************)
EXTENDS SequencesExt, Naturals

SniffLen == 4
Magic == <<31, 139, 8>>

Bytes(reads) == FlattenSeq(reads)

(* sniff and resolve.                                                      *)
Sniff(head) == IF Len(head) >= 3 /\ IsPrefix(Magic, head) THEN "gzip" ELSE "none"

Resolve(mode, head) ==
  CASE mode = "never" -> "none" [] mode = "gzip" -> "gzip" [] mode = "auto" -> Sniff(head)

(* read_head, and the same loop in from_reader_auto: reads until it has    *)
(* enough or the input ends.                                               *)
ReadHead(reads) ==
  FoldLeft(LAMBDA head, r :
             head \o SubSeq(r, 1, IF Len(r) < SniffLen - Len(head) THEN Len(r)
                                  ELSE SniffLen - Len(head)),
           <<>>, reads)

After(reads, n) == SubSeq(Bytes(reads), n + 1, Len(Bytes(reads)))

(* from_reader_auto: what was sniffed is put back in front.                *)
FromReaderAuto(reads, mode) ==
  LET head == ReadHead(reads)
  IN  IF mode = "never" THEN [stream |-> TRUE, compression |-> "none", from |-> Bytes(reads)]
      ELSE [stream |-> TRUE, compression |-> Resolve(mode, head),
            from |-> head \o After(reads, Len(head))]

(* Broken: the descriptor stays where reading or seeking has left it.      *)
Rewound_Not(offset) == offset

(* lseek to the start: where the descriptor is after it.                   *)
Rewound(offset) == 0

(* open_auto of a regular file, a block device or a named pipe: the header *)
(* is read from the descriptor that is used afterwards, so it is rewound,  *)
(* which a pipe refuses.  The size is what stat says, or for a block       *)
(* device where its end is, from which the descriptor is rewound too.      *)
OpenAuto(kind, reads, mode) ==
  LET head == IF mode = "never" THEN <<>> ELSE ReadHead(reads)
      compression == Resolve(mode, head)
      sniffed == IF mode = "never" THEN 0 ELSE Rewound(Len(head))
      size == IF kind = "pipe" THEN 0 ELSE Len(Bytes(reads))
      sized == IF kind = "block" THEN Rewound(size) ELSE sniffed
  IN  IF kind = "pipe" /\ mode # "never" THEN [error |-> "Io"]
      ELSE IF compression = "gzip"
      THEN [stream |-> TRUE, compression |-> compression, from |-> After(reads, sniffed)]
      ELSE [stream |-> FALSE, compression |-> compression, from |-> After(reads, sized),
            size |-> size]

=============================================================================
