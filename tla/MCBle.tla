------------------------------- MODULE MCBle -------------------------------
(* A plain image; an archive of two images and an empty file; one whose list  *)
(* takes two blocks; one whose list is too long and does not parse; one with  *)
(* a file of an unknown type.                                                 *)
EXTENDS OTABle

File(name, size, type) == [name |-> name, size |-> size, type |-> type]
Archive(list, good, listed, files) ==
  [archive |-> TRUE, size |-> 0, list |-> list, good |-> good, listed |-> listed, files |-> files]

MCContents ==
  LET two == <<File("cm4", 5, "NSPE"), File("cm0", 2, "SPE"), File("none", 0, "NSPE")>>
      one == <<File("cm4", 3, "NSPE")>>
  IN [image  |-> [archive |-> FALSE, size |-> 8, list |-> 0, good |-> TRUE,
                  listed |-> <<>>, files |-> <<>>],
      pair   |-> Archive(3, TRUE, two, two),
      long   |-> Archive(6, TRUE, one, one),
      broken |-> Archive(9, FALSE, one, one),
      wrong  |-> Archive(3, TRUE, <<File("cm4", 3, "BOOT")>>, one)]
MCStreams == DOMAIN MCContents

\* The hypotheses of the theorems about archives (OTABleProofs) hold of these.
ASSUME MCArchivesAreProper == ProperArchives /\ OneFileEach
=============================================================================
