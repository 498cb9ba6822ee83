-------------------------- MODULE MCAffidavitWorker --------------------------
EXTENDS AffidavitWorker
==============================================================================
