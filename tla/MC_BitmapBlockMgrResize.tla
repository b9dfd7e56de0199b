----------------------- MODULE MC_BitmapBlockMgrResize -----------------------
EXTENDS BitmapBlockMgr

\* a tracker constructed for one number, as the size-0 case is its own law
MC_InitSize == 1
MC_MaxSize == 4
MC_W == 4
MC_CtzlZero == MC_W
MC_Uint32Mod == 256
=============================================================================
