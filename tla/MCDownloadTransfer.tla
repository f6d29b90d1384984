------------------------- MODULE MCDownloadTransfer -------------------------
(* An instance of DownloadTransfer for TLC.  A behaviour has either two    *)
(* downloads of a file of one window that meet at one target, or one of a  *)
(* longer file that changes under its two passes, on a file system without *)
(* hard links.                                                             *)
EXTENDS DownloadTransfer, TLC

CONSTANTS d1, d2, d3

NoPair == At(d1, "idle") /\ At(d2, "idle")

NoLong == At(d3, "idle")

(* The trouble of a long download is that of the other two, but at the     *)
(* rename that they never come to.                                         *)
LongNext ==
  \/ Confirm(d3) \/ Progress(d3)
  \/ AppendToSource \/ RewriteSource
  \/ At(d3, "rename") /\ Trouble(d3)
  \/ call[d3].pc \in {"rename", "over"} /\ ForeignWrite

DownloadsNext ==
  \/ NoLong /\ Next /\ NoLong' /\ Len(source') <= 1
  \/ NoPair /\ LongNext /\ ~NoLong'

DownloadsSpec ==
  Init /\ [][DownloadsNext]_vars /\ \A c \in Calls : WF_vars(Progress(c))

=============================================================================
