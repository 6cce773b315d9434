--------------------------- MODULE MCInvoiceImport ---------------------------
(***************************************************************************)
(* InvoiceImport with two QR Codes of one note, and with one QR Code.      *)
(***************************************************************************)
EXTENDS InvoiceImport

SameNote == [url \in Urls |-> CHOOSE note \in Notes : TRUE]
=============================================================================
