------------------------- MODULE MC_PlatformBuilder -------------------------
EXTENDS PlatformBuilder

====
