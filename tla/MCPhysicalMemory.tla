-------------------------- MODULE MCPhysicalMemory --------------------------
(* Boot structures for model checking PhysicalMemory, with 4-byte pages.   *)
EXTENDS PhysicalMemory

LOCAL It(a, l, r) == [addr |-> a, len |-> l, relevant |-> r]
LOCAL Map(items) == [type |-> "mmap", items |-> items]
LOCAL Elf(items) == [type |-> "elf", items |-> items]
LOCAL Bare(type) == [type |-> type, items |-> << >>]

\* Two sections that share a page split the main entry; a fragment smaller
\* than a page, a reserved entry and a section without SHF_ALLOC.
Split == << Bare("other"),
            Map(<< It(0, 6, TRUE), It(6, 1, TRUE), It(8, 25, TRUE), It(28, 4, FALSE) >>),
            Elf(<< It(13, 4, TRUE), It(17, 2, TRUE), It(24, 8, FALSE), It(24, 0, TRUE) >>),
            Bare("end"), Bare("other") >>

\* An entry across the first-megabyte limit; sections at the beginning and at
\* the end of it, and one that covers another entry; a malformed last tag.
Trim == << Map(<< It(1, 21, TRUE), It(24, 4, TRUE) >>),
           Elf(<< It(4, 1, TRUE), It(19, 1, TRUE), It(22, 7, TRUE) >>),
           Bare("other"), Bare("invalid"), Bare("other") >>

\* More entries than the table holds (MaxRegions is 3 or 4), and a section in
\* the middle of one when it is full.
Overflow == << Map(<< It(4, 4, TRUE), It(8, 12, TRUE), It(20, 4, TRUE), It(24, 4, TRUE),
                      It(28, 4, TRUE) >>),
               Elf(<< It(12, 3, TRUE), It(20, 2, TRUE) >>) >>

\* A section that spans two entries, and another inside the remainder.
Span == << Map(<< It(8, 8, TRUE), It(16, 16, TRUE) >>),
           Elf(<< It(12, 8, TRUE), It(24, 4, TRUE) >>), Bare("end") >>

\* Memory beyond the pages boot.asm maps.
High == << Map(<< It(20, 8, TRUE), It(32, 4, TRUE) >>), Elf(<< It(20, 2, TRUE) >>) >>

MCBootInfos == { Split, Trim, Overflow, Span, High }
=============================================================================
