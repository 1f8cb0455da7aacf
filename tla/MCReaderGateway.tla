--------------------------- MODULE MCReaderGateway ---------------------------
EXTENDS ReaderGateway
=============================================================================
