---------------------------- MODULE MCBrowserRun ----------------------------
EXTENDS BrowserRun
=============================================================================
