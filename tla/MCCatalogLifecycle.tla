-------------------------- MODULE MCCatalogLifecycle --------------------------
EXTENDS CatalogLifecycle
MCAttempts == 1 .. MaxAttempts
===============================================================================
