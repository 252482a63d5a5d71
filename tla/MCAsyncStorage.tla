--------------------------- MODULE MCAsyncStorage ---------------------------
EXTENDS AsyncStorageProps
=============================================================================
