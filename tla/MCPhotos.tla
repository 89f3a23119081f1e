------------------------------ MODULE MCPhotos ------------------------------
(* Two photos, two drains at a time; the server's folders are MediaFolder.    *)
EXTENDS Photos

ServerFolders == {"drawings", "contracts", "permits", "photos", "reports", "other"}
=============================================================================
