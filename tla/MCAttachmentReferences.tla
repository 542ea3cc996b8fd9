----------------------- MODULE MCAttachmentReferences -----------------------
EXTENDS AttachmentReferences
=============================================================================
