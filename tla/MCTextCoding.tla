---------------------------- MODULE MCTextCoding ----------------------------
EXTENDS TextCoding, MCTexts
=============================================================================
