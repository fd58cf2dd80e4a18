---------------------------- MODULE MCBulkUpload ----------------------------
(* Instances of BulkUpload for TLC. *)
EXTENDS BulkUpload

CONSTANTS n1, t1, t2, r1

MkFile(legacy, big, phone) == [legacy |-> legacy, big |-> big, phone |-> phone]
Small == MkFile(FALSE, FALSE, <<n1, None>>)
Big == MkFile(FALSE, TRUE, <<n1, None>>)
OldSmall == MkFile(TRUE, FALSE, <<n1, n1, None>>)
OldBig == MkFile(TRUE, TRUE, <<n1, None>>)
SomeBatches == {<<Big, Small>>, <<OldSmall, Big>>, <<OldBig, OldSmall>>}
=============================================================================
